---- MODULE Spec2Model ----
(***************************************************************************)
(* Sentry-AI: the dialog decision pipeline.                                *)
(*                                                                         *)
(* The module models, from the Python sources, the Fallback Coordinator    *)
(* (core/llm_fallback.py), the Decision Resolver and its strategies        *)
(* (agents/decision_engine.py, agents/vscode_strategies.py,                *)
(* agents/vscode_simple_strategy.py, agents/app_strategies.py), the        *)
(* pipeline callback (main.py) and the Deduplicator of the VS Code         *)
(* observers (agents/vscode_observer.py, agents/vscode_browser_observer.py)*)
(*                                                                         *)
(* Python strings are TLA+ strings; floats in [0,1] are integer hundredths.*)
(***************************************************************************)
EXTENDS Integers, Sequences, FiniteSets, TLC

(***************************************************************************)
(* String primitives of Python used by the sources.                        *)
(***************************************************************************)
Upper == "ABCDEFGHIJKLMNOPQRSTUVWXYZ"
LowerAlpha == "abcdefghijklmnopqrstuvwxyz"

UpperChars == {SubSeq(Upper, i, i) : i \in 1..26}
LowerOf == [c \in UpperChars |-> LET i == CHOOSE j \in 1..26 : SubSeq(Upper, j, j) = c
                                 IN  SubSeq(LowerAlpha, i, i)]

\* str.lower() on one character
LowerChar(c) == IF c \in UpperChars THEN LowerOf[c] ELSE c

RECURSIVE ToLower(_)
\* str.lower()
ToLower(s) ==
    IF Len(s) <= 1 THEN LowerChar(s)
    ELSE ToLower(SubSeq(s, 1, Len(s) \div 2)) \o ToLower(SubSeq(s, Len(s) \div 2 + 1, Len(s)))

\* k in s  (substring containment)
Contains(s, k) == \E i \in 1..(Len(s) - Len(k) + 1) : SubSeq(s, i, i + Len(k) - 1) = k

StartsWith(s, p) == Len(s) >= Len(p) /\ SubSeq(s, 1, Len(p)) = p
EndsWith(s, p) == Len(s) >= Len(p) /\ SubSeq(s, Len(s) - Len(p) + 1, Len(s)) = p

IsSpace(c) == c \in {" ", "\n", "\t", "\r"}

RECURSIVE LStrip(_)
LStrip(s) == IF s # "" /\ IsSpace(SubSeq(s, 1, 1)) THEN LStrip(SubSeq(s, 2, Len(s))) ELSE s

RECURSIVE RStrip(_)
RStrip(s) == IF s # "" /\ IsSpace(SubSeq(s, Len(s), Len(s))) THEN RStrip(SubSeq(s, 1, Len(s) - 1)) ELSE s

\* str.strip()
Strip(s) == RStrip(LStrip(s))

RECURSIVE SplitOn(_, _)
\* str.split(sep) for a one-character separator
SplitOn(s, sep) ==
    IF \E i \in 1..Len(s) : SubSeq(s, i, i) = sep
    THEN LET i == CHOOSE j \in 1..Len(s) :
                    /\ SubSeq(s, j, j) = sep
                    /\ \A k \in 1..(j - 1) : SubSeq(s, k, k) # sep
         IN  <<SubSeq(s, 1, i - 1)>> \o SplitOn(SubSeq(s, i + 1, Len(s)), sep)
    ELSE <<s>>

RECURSIVE Join(_, _)
\* sep.join(seq)
Join(seq, sep) ==
    IF seq = <<>> THEN ""
    ELSE IF Len(seq) = 1 THEN seq[1]
    ELSE seq[1] \o sep \o Join(Tail(seq), sep)

\* x in list
InList(x, seq) == \E i \in 1..Len(seq) : seq[i] = x

\* [f(x) for x in seq] with f = str.lower
LowerAll(seq) == [i \in 1..Len(seq) |-> ToLower(seq[i])]

(***************************************************************************)
(* Response Parser: core/llm_parser.py, parse_structured_response.         *)
(***************************************************************************)
Digits == "0123456789"
IsDigit(c) == \E i \in 1..10 : SubSeq(Digits, i, i) = c
DigitVal(c) == (CHOOSE i \in 1..10 : SubSeq(Digits, i, i) = c) - 1

RECURSIVE SpanWhile(_, _, _)
\* length of the longest prefix of s from position i on whose characters are in the set cs,
\* returned as the first position after it (the end() of a regex character-class star)
SpanWhile(s, i, cs) == IF i <= Len(s) /\ SubSeq(s, i, i) \in cs THEN SpanWhile(s, i + 1, cs) ELSE i

DigitChars == {SubSeq(Digits, i, i) : i \in 1..10}

RECURSIVE ToInt(_)
\* int(digits)
ToInt(s) == IF s = "" THEN 0 ELSE 10 * ToInt(SubSeq(s, 1, Len(s) - 1)) + DigitVal(SubSeq(s, Len(s), Len(s)))

RECURSIVE Words(_)
\* str.split() without argument: the maximal runs of non-whitespace characters
Words(s) ==
    LET t == LStrip(s) IN
    IF t = "" THEN <<>>
    ELSE LET e == CHOOSE j \in 1..(Len(t) + 1) :
                    /\ (j = Len(t) + 1 \/ IsSpace(SubSeq(t, j, j)))
                    /\ \A k \in 1..(j - 1) : ~IsSpace(SubSeq(t, k, k))
         IN  <<SubSeq(t, 1, e - 1)>> \o Words(SubSeq(t, e, Len(t)))

WordSet(s) == {Words(s)[i] : i \in 1..Len(Words(s))}

\* `not choice` of Python: None is <<>>, a string s is <<s>>
NotChoice(c) == c = <<>> \/ c = <<"">>

\* Strategy 1 once the end of the leading digits (dend) is known
NumberResult(lines, first_line, dend, options) ==
    IF dend > 1 /\ 1 <= ToInt(SubSeq(first_line, 1, dend - 1))
                /\ ToInt(SubSeq(first_line, 1, dend - 1)) <= Len(options)
    THEN [choice |-> <<options[ToInt(SubSeq(first_line, 1, dend - 1))]>>,
          reasoning |-> Strip(SubSeq(first_line,
                                     SpanWhile(first_line, dend, {".", ")", ":", "-", " ", "\t", "\n", "\r"}),
                                     Len(first_line)))
                        \o (IF Len(lines) > 1 THEN " " \o Join(Tail(lines), " ") ELSE "")]
    ELSE [choice |-> <<>>, reasoning |-> ""]

NumberOfLines(lines, first_line, options) ==
    NumberResult(lines, first_line, SpanWhile(first_line, 1, DigitChars), options)

\* Strategy 1: re.match(r'^(\d+)[.):\s-]*', first_line)
ParseByNumber(response, options) ==
    LET lines == SplitOn(response, "\n")
    IN  NumberOfLines(lines, Strip(lines[1]), options)

\* response.split(option, 1)[1] when option occurs in response (case-sensitive), "" otherwise
AfterFirst(response, option) ==
    IF option # "" /\ Contains(response, option)
    THEN LET i == CHOOSE j \in 1..Len(response) :
                    /\ j + Len(option) - 1 <= Len(response)
                    /\ SubSeq(response, j, j + Len(option) - 1) = option
                    /\ \A k \in 1..(j - 1) : SubSeq(response, k, k + Len(option) - 1) # option
         IN  Strip(SubSeq(response, i + Len(option), Len(response)))
    ELSE ""

\* mutant: the last option whose text occurs in the response is chosen
NameHitLast(response, options, hits) ==
    IF hits # {}
    THEN LET i == CHOOSE j \in hits : \A k \in hits : j >= k
         IN  [choice |-> <<options[i]>>, reasoning |-> AfterFirst(response, options[i])]
    ELSE [choice |-> <<>>, reasoning |-> ""]

\* mutant: the choice is the lowercase text that was matched, not the option itself
NameHitLowered(response, options, hits) ==
    IF hits # {}
    THEN LET i == CHOOSE j \in hits : \A k \in hits : j <= k
         IN  [choice |-> <<ToLower(options[i])>>, reasoning |-> AfterFirst(response, options[i])]
    ELSE [choice |-> <<>>, reasoning |-> ""]

NameHit(response, options, hits) ==
    IF hits # {}
    THEN LET i == CHOOSE j \in hits : \A k \in hits : j <= k
         IN  [choice |-> <<options[i]>>, reasoning |-> AfterFirst(response, options[i])]
    ELSE [choice |-> <<>>, reasoning |-> ""]

NameIn(response, rl, options) ==
    NameHit(response, options, {i \in 1..Len(options) : Contains(rl, ToLower(options[i]))})

\* Strategy 2: the first option whose lowercase text occurs in the lowercase response
ParseByName(response, options) == NameIn(response, ToLower(response), options)

\* Strategy 3: re.search(r'(?:option|choice)\s+(\d+)', response_lower), leftmost match
OptionXMatchAt(rl, i, kw) ==
    /\ i + Len(kw) - 1 <= Len(rl)
    /\ SubSeq(rl, i, i + Len(kw) - 1) = kw
    /\ LET s == SpanWhile(rl, i + Len(kw), {" ", "\t", "\n", "\r"})
       IN  s > i + Len(kw) /\ s <= Len(rl) /\ IsDigit(SubSeq(rl, s, s))

OptionXNumber(num, options) ==
    IF 1 <= num /\ num <= Len(options)
    THEN [choice |-> <<options[num]>>, reasoning |-> ""]
    ELSE [choice |-> <<>>, reasoning |-> ""]

OptionXFrom(rl, s, options) == OptionXNumber(ToInt(SubSeq(rl, s, SpanWhile(rl, s, DigitChars) - 1)), options)

OptionXStarts(rl, starts, options) ==
    IF starts # {}
    THEN OptionXFrom(rl, SpanWhile(rl, (CHOOSE j \in starts : \A k \in starts : j <= k) + 6,
                                   {" ", "\t", "\n", "\r"}), options)
    ELSE [choice |-> <<>>, reasoning |-> ""]

OptionXIn(rl, options) ==
    OptionXStarts(rl, {i \in 1..Len(rl) : OptionXMatchAt(rl, i, "option") \/ OptionXMatchAt(rl, i, "choice")},
                  options)

ParseByOptionX(response, options) == OptionXIn(ToLower(response), options)

\* Strategy 4: the first option with the largest positive word overlap
Overlap(rwords, option) == Cardinality(rwords \cap WordSet(ToLower(option)))

FuzzyBest(options, ov) ==
    LET best == {i \in 1..Len(options) :
                    /\ ov[i] > 0
                    /\ \A k \in 1..Len(options) : ov[k] <= ov[i] /\ (k < i => ov[k] < ov[i])}
    IN  IF best # {}
        THEN [choice |-> <<options[CHOOSE i \in best : TRUE]>>,
              reasoning |-> "Fuzzy matched based on word overlap"]
        ELSE [choice |-> <<>>, reasoning |-> ""]

FuzzyWords(rwords, options) == FuzzyBest(options, [i \in 1..Len(options) |-> Overlap(rwords, options[i])])

ParseByFuzzy(response, options) == FuzzyWords(WordSet(ToLower(response)), options)

FallbackConfidence == 30

\* the strategies in turn: each runs only while there is no choice yet (`if not choice`);
\* strategy 3 leaves the reasoning alone, strategy 4 sets it only when it matches
\* a strategy's result with the name of the strategy that produced it
Tagged(r, p) == [choice |-> r.choice, reasoning |-> r.reasoning, path |-> p]

AfterNumber(s1, response, options) ==
    IF NotChoice(s1.choice) THEN Tagged(ParseByName(response, options), "name") ELSE s1
AfterName(s2, response, options) ==
    IF NotChoice(s2.choice)
    THEN [choice |-> ParseByOptionX(response, options).choice, reasoning |-> s2.reasoning, path |-> "optionx"]
    ELSE s2
FuzzyOr(s3, f) ==
    IF NotChoice(f.choice) THEN s3
    ELSE [choice |-> f.choice, reasoning |-> f.reasoning, path |-> "fuzzy"]
AfterOptionX(s3, response, options) ==
    IF NotChoice(s3.choice) THEN FuzzyOr(s3, ParseByFuzzy(response, options)) ELSE s3

\* mutant: without a choice the parser gives up (raises) instead of falling back
ParseFinishNoFallback(s4, options, confidence) ==
    IF NotChoice(s4.choice)
    THEN [raised |-> TRUE, choice |-> "", reasoning |-> "", confidence |-> 0, path |-> "fallback"]
    ELSE [raised |-> FALSE, choice |-> s4.choice[1],
          reasoning |-> IF s4.reasoning = "" THEN "No explicit reasoning provided"
                        ELSE Strip(s4.reasoning),
          confidence |-> confidence, path |-> s4.path]

\* mutant: the fallback keeps the caller's confidence and the fuzzy match lowers it
ParseFinishConfidenceSwapped(s4, options, confidence) ==
    IF NotChoice(s4.choice)
    THEN IF options = <<>>
         THEN [raised |-> TRUE, choice |-> "", reasoning |-> "", confidence |-> 0, path |-> "fallback"]
         ELSE [raised |-> FALSE, choice |-> options[1],
               reasoning |-> "Fallback to first option - could not parse response",
               confidence |-> confidence, path |-> "fallback"]
    ELSE [raised |-> FALSE, choice |-> s4.choice[1],
          reasoning |-> IF s4.reasoning = "" THEN "No explicit reasoning provided"
                        ELSE Strip(s4.reasoning),
          confidence |-> IF s4.path = "fuzzy" THEN FallbackConfidence ELSE confidence,
          path |-> s4.path]

\* mutant: a choice without reasoning keeps the empty reasoning
ParseFinishNoDefaultReasoning(s4, options, confidence) ==
    IF NotChoice(s4.choice)
    THEN IF options = <<>>
         THEN [raised |-> TRUE, choice |-> "", reasoning |-> "", confidence |-> 0, path |-> "fallback"]
         ELSE [raised |-> FALSE, choice |-> options[1],
               reasoning |-> "Fallback to first option - could not parse response",
               confidence |-> FallbackConfidence, path |-> "fallback"]
    ELSE [raised |-> FALSE, choice |-> s4.choice[1],
          reasoning |-> Strip(s4.reasoning),
          confidence |-> confidence, path |-> s4.path]

\* the end of parse_structured_response; raised = IndexError of options[0]
ParseFinish(s4, options, confidence) ==
    IF NotChoice(s4.choice)
    THEN IF options = <<>>
         THEN [raised |-> TRUE, choice |-> "", reasoning |-> "", confidence |-> 0, path |-> "fallback"]
         ELSE [raised |-> FALSE, choice |-> options[1],
               reasoning |-> "Fallback to first option - could not parse response",
               confidence |-> FallbackConfidence, path |-> "fallback"]
    ELSE [raised |-> FALSE, choice |-> s4.choice[1],
          reasoning |-> IF s4.reasoning = "" THEN "No explicit reasoning provided"
                        ELSE Strip(s4.reasoning),
          confidence |-> confidence, path |-> s4.path]

\* mutant: the option-name strategy runs before the leading-number strategy
ParseStrippedNameFirst(response, options, confidence) ==
    ParseFinish(
        AfterOptionX(
            AfterName(
                IF NotChoice(ParseByName(response, options).choice)
                THEN Tagged(ParseByNumber(response, options), "number")
                ELSE Tagged(ParseByName(response, options), "name"),
                response, options),
            response, options),
        options, confidence)

ParseStripped(response, options, confidence) ==
    ParseFinish(
        AfterOptionX(
            AfterName(
                AfterNumber(Tagged(ParseByNumber(response, options), "number"), response, options),
                response, options),
            response, options),
        options, confidence)

\* parse_structured_response(response, options, confidence)
ParseStructuredResponse(response, options, confidence) == ParseStripped(Strip(response), options, confidence)

(***************************************************************************)
(* Generation backends: core/llm_provider.py.                              *)
(***************************************************************************)
\* enum LLMProvider
LLMProviderNames == {"ollama", "gemini", "openai", "claude"}

\* Settings.llm_fallback_order default
DefaultFallbackOrder == <<"claude", "openai", "gemini", "ollama">>

\* the default confidence each backend passes to the parser
ProviderConfidence(name) ==
    CASE name = "ollama" -> 80
      [] name = "gemini" -> 90
      [] OTHER -> 95

\* What the remote service does on one call: fail (timeout, transport error) or answer text.
FailOutcome == [fail |-> TRUE, text |-> ""]
TextOutcome(t) == [fail |-> FALSE, text |-> t]

\* <Backend>Provider.generate: raises when the service call raises.  Only the Ollama
\* backend talks to a local server that can go away after construction.
ProviderGenerate(name, up, outcome) ==
    IF (name = "ollama" /\ ~up) \/ outcome.fail
    THEN [raised |-> TRUE, text |-> ""]
    ELSE [raised |-> FALSE, text |-> outcome.text]

\* <Backend>Provider.generate_structured: generate, then parse_structured_response
ProviderGenerateStructured(name, up, outcome, options) ==
    LET g == ProviderGenerate(name, up, outcome)
    IN  IF g.raised
        THEN [raised |-> TRUE, choice |-> "", reasoning |-> "", confidence |-> 0, path |-> "raise"]
        ELSE ParseStructuredResponse(g.text, options, ProviderConfidence(name))

\* OllamaProvider.is_available (a live check); the other backends' is_available depends
\* only on what was fixed at construction (API key, package import)
IsAvailable(name, up, keys) == IF name = "ollama" THEN up ELSE name \in keys

(***************************************************************************)
(* Fallback Coordinator: core/llm_fallback.py, LLMFallbackManager.         *)
(***************************************************************************)
\* LLMFallbackManager.__init__ default argument; the global instance uses it
enabled == TRUE

\* _initialize_providers: the identities registered in self.providers, in the order
\* of registration (dict insertion order)
InitializeProviders(up, keys) ==
    SelectSeq(<<"ollama", "gemini", "openai", "claude">>, LAMBDA n : IsAvailable(n, up, keys))

ProviderSet(provs) == {provs[i] : i \in 1..Len(provs)}

\* get_available_providers / is_any_available
GetAvailableProviders(provs) == provs
IsAnyAvailable(provs) == Len(provs) > 0

NoResult == [raised |-> TRUE, choice |-> "", reasoning |-> "", confidence |-> 0, path |-> "none"]

RECURSIVE AttemptLoopNoReturn(_, _, _, _, _, _)
\* mutant: the loop lacks the return on success and keeps invoking the later identities
AttemptLoopNoReturn(order, provs, up, oracle, options, i) ==
    IF i > Len(order)
    THEN [raised |-> TRUE, result |-> NoResult, trace |-> <<>>]
    ELSE LET rest == AttemptLoopNoReturn(order, provs, up, oracle, options, i + 1)
         IN  IF order[i] \notin ProviderSet(provs)
             THEN [rest EXCEPT !.trace = <<[pos |-> i, name |-> order[i], what |-> "skip"]>> \o @]
             ELSE LET r == ProviderGenerateStructured(order[i], up, oracle[i], options)
                  IN  IF ~r.raised
                      THEN [raised |-> FALSE, result |-> r,
                            trace |-> <<[pos |-> i, name |-> order[i], what |-> "ok"]>> \o rest.trace]
                      ELSE [rest EXCEPT !.trace = <<[pos |-> i, name |-> order[i], what |-> "fail"]>> \o @]

RECURSIVE AttemptLoopNoSkip(_, _, _, _, _, _)
\* mutant: the loop lacks the `if not provider: continue` test, so an identity without a
\* mapped instance is invoked (and fails) instead of being skipped
AttemptLoopNoSkip(order, provs, up, oracle, options, i) ==
    IF i > Len(order)
    THEN [raised |-> TRUE, result |-> NoResult, trace |-> <<>>]
    ELSE LET r == IF order[i] \notin ProviderSet(provs) THEN NoResult
                  ELSE ProviderGenerateStructured(order[i], up, oracle[i], options)
         IN  IF ~r.raised
             THEN [raised |-> FALSE, result |-> r,
                   trace |-> <<[pos |-> i, name |-> order[i], what |-> "ok"]>>]
             ELSE LET rest == AttemptLoopNoSkip(order, provs, up, oracle, options, i + 1)
                  IN  [rest EXCEPT !.trace = <<[pos |-> i, name |-> order[i], what |-> "fail"]>> \o @]

RECURSIVE AttemptLoop(_, _, _, _, _, _)
\* the for loop of generate_structured from index i on; trace lists what happened at
\* each visited position of fallback_order: "skip" (no mapped instance), "fail", "ok"
AttemptLoop(order, provs, up, oracle, options, i) ==
    IF i > Len(order)
    THEN [raised |-> TRUE, result |-> NoResult, trace |-> <<>>]
    ELSE IF order[i] \notin ProviderSet(provs)
    THEN LET rest == AttemptLoop(order, provs, up, oracle, options, i + 1)
         IN  [rest EXCEPT !.trace = <<[pos |-> i, name |-> order[i], what |-> "skip"]>> \o @]
    ELSE LET r == ProviderGenerateStructured(order[i], up, oracle[i], options)
         IN  IF ~r.raised
             THEN [raised |-> FALSE, result |-> r,
                   trace |-> <<[pos |-> i, name |-> order[i], what |-> "ok"]>>]
             ELSE LET rest == AttemptLoop(order, provs, up, oracle, options, i + 1)
                  IN  [rest EXCEPT !.trace = <<[pos |-> i, name |-> order[i], what |-> "fail"]>> \o @]

\* LLMFallbackManager.generate_structured; raised = RuntimeError
GenerateStructured(order, provs, up, oracle, options) ==
    IF ~enabled \/ Len(provs) = 0
    THEN [raised |-> TRUE, result |-> NoResult, trace |-> <<>>]
    ELSE AttemptLoop(order, provs, up, oracle, options, 1)

RECURSIVE GenerateLoop(_, _, _, _, _)
\* the for loop of LLMFallbackManager.generate from index i on
GenerateLoop(order, provs, up, oracle, i) ==
    IF i > Len(order) THEN [raised |-> TRUE, text |-> ""]
    ELSE IF order[i] \notin ProviderSet(provs) THEN GenerateLoop(order, provs, up, oracle, i + 1)
    ELSE IF ~ProviderGenerate(order[i], up, oracle[i]).raised
    THEN ProviderGenerate(order[i], up, oracle[i])
    ELSE GenerateLoop(order, provs, up, oracle, i + 1)

\* LLMFallbackManager.generate (free text); raised = RuntimeError.  No strategy and no
\* step of decide calls it
Generate(order, provs, up, oracle) ==
    IF ~enabled \/ Len(provs) = 0 THEN [raised |-> TRUE, text |-> ""]
    ELSE GenerateLoop(order, provs, up, oracle, 1)

(***************************************************************************)
(* Decisions.  None is NoDecision; AIDecision / StrategyDecision carry the *)
(* four fields of models/data_models.py.                                   *)
(***************************************************************************)
NoDecision == [none |-> TRUE]
AIDecision(opt, reason, conf, confirm) ==
    [none |-> FALSE, chosen_option |-> opt, reasoning |-> reason,
     confidence |-> conf, requires_confirmation |-> confirm]

\* any(p in text for p in patterns)
AnyIn(patterns, text) == \E i \in 1..Len(patterns) : Contains(text, patterns[i])

(***************************************************************************)
(* Pattern strategies: agents/vscode_strategies.py.                        *)
(***************************************************************************)
safe_patterns ==
    <<"cat", "ls", "pwd", "echo", "grep", "find", "wc",
      "head", "tail", "less", "more", "which", "whereis",
      "python", "node", "npm", "pip", "git status", "git log",
      "git diff", "curl", "wget">>

dangerous_patterns ==
    <<"rm -rf", "sudo", "chmod", "chown", "dd", "mkfs",
      "format", ">", ">>", "kill", "pkill", "killall">>

\* ClaudeBashCommandStrategy.can_handle
BashCanHandle(ctx) ==
    LET question == ToLower(ctx.question)
        options == LowerAll(ctx.options)
    IN  \/ Contains(question, "allow this bash command")
        \/ Contains(question, "allow this command")
        \/ /\ InList("yes", options)
           /\ InList("no", options)
           /\ \E i \in 1..Len(options) : Contains(options[i], "tell claude")

RECURSIVE ExtractFromLines(_)
\* the for loop of _extract_command over the remaining lines
ExtractFromLines(lines) ==
    IF lines = <<>> THEN ""
    ELSE LET line == Strip(lines[1])
         IN  IF StartsWith(line, "$") THEN Strip(SubSeq(line, 2, Len(line)))
             ELSE IF line # "" /\ ~EndsWith(line, "?") THEN line
             ELSE ExtractFromLines(Tail(lines))

\* ClaudeBashCommandStrategy._extract_command
ExtractCommand(question) == ExtractFromLines(SplitOn(question, "\n"))

\* ClaudeBashCommandStrategy._is_safe_command / _is_dangerous_command
IsSafeCommand(command) == AnyIn(safe_patterns, ToLower(command))
IsDangerousCommand(command) == AnyIn(dangerous_patterns, ToLower(command))

\* mutant: the "don't ask again" variant is taken when the dialog offers it
BashDecideDontAskAgain(ctx, auto_approve, safe_commands_only) ==
    LET command == ExtractCommand(ctx.question)
    IN  IF ~auto_approve
        THEN AIDecision("No", "Auto-approve disabled", 100, TRUE)
        ELSE IF safe_commands_only /\ IsDangerousCommand(command)
        THEN AIDecision("No", "Dangerous command detected: " \o command, 90, TRUE)
        ELSE IF safe_commands_only /\ ~IsSafeCommand(command)
        THEN AIDecision("Tell Claude what to do instead", "Unknown command safety: " \o command, 70, TRUE)
        ELSE IF InList("Yes, and don't ask again", ctx.options)
        THEN AIDecision("Yes, and don't ask again", "Safe command approved: " \o command, 90, FALSE)
        ELSE IF InList("Yes", ctx.options)
        THEN AIDecision("Yes", "Safe command approved: " \o command, 90, FALSE)
        ELSE NoDecision

\* ClaudeBashCommandStrategy.decide
BashDecide(ctx, auto_approve, safe_commands_only) ==
    LET command == ExtractCommand(ctx.question)
    IN  IF ~auto_approve
        THEN AIDecision("No", "Auto-approve disabled", 100, TRUE)
        ELSE IF safe_commands_only /\ IsDangerousCommand(command)
        THEN AIDecision("No", "Dangerous command detected: " \o command, 90, TRUE)
        ELSE IF safe_commands_only /\ ~IsSafeCommand(command)
        THEN AIDecision("Tell Claude what to do instead", "Unknown command safety: " \o command, 70, TRUE)
        ELSE IF InList("Yes", ctx.options)
        THEN AIDecision("Yes", "Safe command approved: " \o command, 90, FALSE)
        ELSE NoDecision

\* ClaudeEditAutomaticallyStrategy.can_handle / decide
EditCanHandle(ctx) == Contains(ToLower(ctx.question), "edit automatically")
EditDecide(ctx, auto_approve) ==
    IF auto_approve THEN AIDecision("Yes", "Auto-edit approved", 80, FALSE)
    ELSE AIDecision("No", "Auto-edit disabled", 100, TRUE)

\* ClaudeQuestionStrategy.can_handle
QuestionCanHandle(ctx) == EndsWith(Strip(ToLower(ctx.question)), "?") /\ Len(ctx.options) = 0

\* ClaudeQuestionStrategy.decide; llm is <<>> (no provider) or <<name>>, gen is what the
\* backend does on the one generate call
QuestionDecide(ctx, llm, up, gen) ==
    IF llm = <<>>
    THEN AIDecision("", "No LLM provider available for answering questions", 0, TRUE)
    ELSE LET g == ProviderGenerate(llm[1], up, gen)
         IN  IF g.raised THEN NoDecision
             ELSE AIDecision(g.text, "LLM-generated answer to Claude's question", 70, TRUE)

\* VSCodeStrategyManager.decide: the first strategy that can handle decides, even with None
VSCodeManagerDecide(ctx, llm, up, gen) ==
    IF BashCanHandle(ctx) THEN BashDecide(ctx, TRUE, TRUE)
    ELSE IF EditCanHandle(ctx) THEN EditDecide(ctx, TRUE)
    ELSE IF QuestionCanHandle(ctx) THEN QuestionDecide(ctx, llm, up, gen)
    ELSE NoDecision

(***************************************************************************)
(* Simple VS Code strategies: agents/vscode_simple_strategy.py.            *)
(***************************************************************************)
\* SimpleVSCodeStrategy.can_handle
SimpleCanHandle(ctx) ==
    AnyIn(<<"visual studio code", "code", "vscode">>, ToLower(ctx.app_name))

priority_choices == <<"yes", "allow", "continue", "ok", "approve">>

\* mutant: the options are walked in the outer loop, so the first option that contains
\* any of the keywords is chosen
SimpleDecideOptionFirst(ctx) ==
    LET options == ctx.options
        options_lower == LowerAll(options)
        any == {i \in 1..Len(options) :
                   \E k \in 1..Len(priority_choices) : Contains(options_lower[i], priority_choices[k])}
    IN  IF Len(options) = 0 THEN NoDecision
        ELSE IF any # {}
        THEN LET i == CHOOSE a \in any : \A b \in any : a <= b
             IN  AIDecision(options[i], "Simple strategy: Auto-approve with '" \o options[i] \o "'", 100, FALSE)
        ELSE AIDecision(options[1],
                        "Simple strategy: Auto-approve with first option '" \o options[1] \o "'", 80, FALSE)

\* SimpleVSCodeStrategy.decide
SimpleDecide(ctx) ==
    LET options == ctx.options
        options_lower == LowerAll(options)
        hit(k) == {i \in 1..Len(options) : Contains(options_lower[i], priority_choices[k])}
        ks == {k \in 1..Len(priority_choices) : hit(k) # {}}
    IN  IF Len(options) = 0 THEN NoDecision
        ELSE IF ks # {}
        THEN LET k == CHOOSE a \in ks : \A b \in ks : a <= b
                 i == CHOOSE a \in hit(k) : \A b \in hit(k) : a <= b
             IN  AIDecision(options[i], "Simple strategy: Auto-approve with '" \o options[i] \o "'", 100, FALSE)
        ELSE AIDecision(options[1],
                        "Simple strategy: Auto-approve with first option '" \o options[1] \o "'", 80, FALSE)

\* SimpleAnswerStrategy.can_handle
AnswerCanHandle(ctx) ==
    /\ AnyIn(<<"what", "how", "which", "where", "when", "who",
               "enter", "type", "specify", "provide", "tell">>, ToLower(ctx.question))
    /\ \E i \in 1..Len(ctx.options) :
          Contains(ToLower(ctx.options[i]), "answer") \/ Contains(ToLower(ctx.options[i]), "respond")

\* SimpleAnswerStrategy._generate_default_answer
GenerateDefaultAnswer(question) ==
    LET q == ToLower(question)
    IN  IF Contains(q, "yes") /\ Contains(q, "no") THEN "Yes"
        ELSE IF Contains(q, "continue") THEN "Yes, continue"
        ELSE IF Contains(q, "file") \/ Contains(q, "path") THEN "./output.txt"
        ELSE IF Contains(q, "name") THEN "output"
        ELSE IF Contains(q, "number") \/ Contains(q, "count") THEN "10"
        ELSE "Yes, proceed"

\* SimpleAnswerStrategy.decide (with _generate_llm_answer)
AnswerDecide(ctx, llm, up, gen) ==
    LET g == IF llm = <<>> THEN [raised |-> TRUE, text |-> ""] ELSE ProviderGenerate(llm[1], up, gen)
        answer == IF g.raised THEN "" ELSE Strip(g.text)
    IN  IF answer # ""
        THEN AIDecision(answer, "LLM-generated answer to: " \o ctx.question, 90, FALSE)
        ELSE AIDecision(GenerateDefaultAnswer(ctx.question), "Default answer to: " \o ctx.question, 70, FALSE)

\* SimpleVSCodeStrategyManager.decide
SimpleManagerDecide(ctx, llm, up, gen) ==
    LET approval == IF SimpleCanHandle(ctx) THEN SimpleDecide(ctx) ELSE NoDecision
        answer == IF AnswerCanHandle(ctx) THEN AnswerDecide(ctx, llm, up, gen) ELSE NoDecision
        yes == {i \in 1..Len(ctx.options) : Contains(ToLower(ctx.options[i]), "yes")}
    IN  IF ~approval.none THEN approval
        ELSE IF ~answer.none THEN answer
        ELSE IF yes # {}
        THEN AIDecision(ctx.options[CHOOSE a \in yes : \A b \in yes : a <= b], "Default to Yes", 80, FALSE)
        ELSE NoDecision

(***************************************************************************)
(* Per-application strategies: agents/app_strategies.py.                   *)
(***************************************************************************)
\* mutant: the options are compared without lowercasing them
TextEditDecideCaseSensitive(ctx) ==
    IF Contains(ToLower(ctx.question), "save") /\ InList("don't save", ctx.options)
    THEN AIDecision("Save", "Default to saving documents in TextEdit for safety", 80, FALSE)
    ELSE NoDecision

\* TextEditStrategy.decide
TextEditDecide(ctx) ==
    IF Contains(ToLower(ctx.question), "save") /\ InList("don't save", LowerAll(ctx.options))
    THEN AIDecision("Save", "Default to saving documents in TextEdit for safety", 80, FALSE)
    ELSE NoDecision

\* FinderStrategy.decide
FinderDecide(ctx) ==
    LET q == ToLower(ctx.question)
    IN  IF AnyIn(<<"delete", "remove", "trash", "empty">>, q)
        THEN AIDecision("Cancel", "Destructive Finder operations require user confirmation", 90, TRUE)
        ELSE IF Contains(q, "replace")
        THEN AIDecision("Cancel", "File replacement should be confirmed by user", 80, TRUE)
        ELSE NoDecision

\* SafariStrategy.decide
SafariDecide(ctx) ==
    LET q == ToLower(ctx.question)
    IN  IF Contains(q, "download")
        THEN AIDecision("Allow", "Auto-allow downloads in Safari", 70, FALSE)
        ELSE IF Contains(q, "close") /\ Contains(q, "tab")
        THEN AIDecision("Close", "Allow closing multiple tabs", 60, FALSE)
        ELSE IF AnyIn(<<"clear", "remove", "delete">>, q)
        THEN AIDecision("Cancel", "Clearing browsing data requires confirmation", 90, TRUE)
        ELSE NoDecision

\* MailStrategy.decide
MailDecide(ctx) ==
    LET q == ToLower(ctx.question)
    IN  IF Contains(q, "delete")
        THEN AIDecision("Delete", "Allow deleting emails (can be recovered from trash)", 70, FALSE)
        ELSE IF Contains(q, "subject") /\ Contains(q, "send")
        THEN AIDecision("Don't Send", "Don't send emails without subject", 80, FALSE)
        ELSE IF Contains(q, "large") \/ Contains(q, "size")
        THEN AIDecision("Send", "Allow sending large attachments", 60, TRUE)
        ELSE NoDecision

\* NotesStrategy.decide
NotesDecide(ctx) ==
    LET q == ToLower(ctx.question)
    IN  IF Contains(q, "delete")
        THEN AIDecision("Delete", "Allow deleting notes (recoverable from Recently Deleted)", 70, FALSE)
        ELSE IF Contains(q, "save")
        THEN AIDecision("Save", "Always save notes", 90, FALSE)
        ELSE NoDecision

\* XcodeStrategy.decide
XcodeDecide(ctx) ==
    LET q == ToLower(ctx.question)
    IN  IF Contains(q, "build")
        THEN AIDecision("Continue", "Allow continuing despite build warnings", 50, TRUE)
        ELSE IF Contains(q, "delete") /\ Contains(q, "derived")
        THEN AIDecision("Delete", "Safe to delete derived data", 80, FALSE)
        ELSE IF Contains(q, "sign") \/ Contains(q, "certificate")
        THEN AIDecision("Cancel", "Code signing requires user attention", 90, TRUE)
        ELSE NoDecision

\* PhotosStrategy.decide
PhotosDecide(ctx) ==
    LET q == ToLower(ctx.question)
    IN  IF Contains(q, "delete")
        THEN AIDecision("Delete", "Allow deleting photos (recoverable from Recently Deleted for 30 days)", 60, FALSE)
        ELSE IF Contains(q, "import")
        THEN AIDecision("Import", "Auto-import photos", 80, FALSE)
        ELSE IF Contains(q, "optimize") \/ Contains(q, "storage")
        THEN AIDecision("Optimize", "Allow storage optimization", 70, FALSE)
        ELSE NoDecision

\* SlackStrategy.decide
SlackDecide(ctx) ==
    LET q == ToLower(ctx.question)
    IN  IF Contains(q, "notification")
        THEN AIDecision("Allow", "Allow Slack notifications", 90, FALSE)
        ELSE IF Contains(q, "update")
        THEN AIDecision("Later", "Defer Slack updates to avoid interruption", 70, FALSE)
        ELSE NoDecision

\* AppStrategyManager.decide: every strategy whose can_handle (app_name equality) holds
\* is asked in list order; the app names are pairwise distinct
AppManagerDecide(ctx) ==
    CASE ctx.app_name = "TextEdit" -> TextEditDecide(ctx)
      [] ctx.app_name = "Finder" -> FinderDecide(ctx)
      [] ctx.app_name = "Safari" -> SafariDecide(ctx)
      [] ctx.app_name = "Mail" -> MailDecide(ctx)
      [] ctx.app_name = "Notes" -> NotesDecide(ctx)
      [] ctx.app_name = "Xcode" -> XcodeDecide(ctx)
      [] ctx.app_name = "Photos" -> PhotosDecide(ctx)
      [] ctx.app_name = "Slack" -> SlackDecide(ctx)
      [] OTHER -> NoDecision

(***************************************************************************)
(* Decision Resolver: agents/decision_engine.py, DecisionEngine.           *)
(***************************************************************************)
\* Settings.require_confirmation_for default, and core/config.py requires_confirmation
require_confirmation_for == <<"Finder", "Mail">>
RequiresConfirmation(app_name) == InList(app_name, require_confirmation_for)

\* DecisionEngine.__init__: first_provider handed to the VS Code strategy manager
FirstProvider(provs) ==
    IF IsAnyAvailable(provs) /\ Len(GetAvailableProviders(provs)) > 0
    THEN <<GetAvailableProviders(provs)[1]>> ELSE <<>>

save_keywords == <<"save", "enregistrer", "sauvegarder", "yes", "oui">>
cancel_keywords == <<"cancel", "annuler", "no", "non">>

\* mutant: the first option without a cancel-like keyword is preferred to a later
\* option with a prefer-safe keyword
RuleBasedDecisionNonCancelFirst(ctx) ==
    LET options == ctx.options
        saves == {i \in 1..Len(options) : AnyIn(save_keywords, ToLower(options[i]))}
        noncancel == {i \in 1..Len(options) : ~AnyIn(cancel_keywords, ToLower(options[i]))}
    IN  IF Len(options) = 0 THEN NoDecision
        ELSE IF noncancel # {}
        THEN AIDecision(options[CHOOSE a \in noncancel : \A b \in noncancel : a <= b],
                        "Rule-based: Choose first non-cancel option", 60, FALSE)
        ELSE IF saves # {}
        THEN AIDecision(options[CHOOSE a \in saves : \A b \in saves : a <= b],
                        "Rule-based: Prefer saving to avoid data loss", 70, FALSE)
        ELSE AIDecision(options[1], "Rule-based: Default to first option", 50, FALSE)

\* DecisionEngine._rule_based_decision
RuleBasedDecision(ctx) ==
    LET options == ctx.options
        saves == {i \in 1..Len(options) : AnyIn(save_keywords, ToLower(options[i]))}
        noncancel == {i \in 1..Len(options) : ~AnyIn(cancel_keywords, ToLower(options[i]))}
    IN  IF Len(options) = 0 THEN NoDecision
        ELSE IF saves # {}
        THEN AIDecision(options[CHOOSE a \in saves : \A b \in saves : a <= b],
                        "Rule-based: Prefer saving to avoid data loss", 70, FALSE)
        ELSE IF noncancel # {}
        THEN AIDecision(options[CHOOSE a \in noncancel : \A b \in noncancel : a <= b],
                        "Rule-based: Choose first non-cancel option", 60, FALSE)
        ELSE AIDecision(options[1], "Rule-based: Default to first option", 50, FALSE)

\* the try block of _ai_decision around the coordinator's call g: its RuntimeError
\* becomes None (except Exception), its result dict becomes an AIDecision
AiFromResult(g) ==
    IF g.raised
    THEN [raised |-> FALSE, decision |-> NoDecision, fb |-> <<g>>]
    ELSE [raised |-> FALSE,
          decision |-> AIDecision(g.result.choice, g.result.reasoning, g.result.confidence, FALSE),
          fb |-> <<g>>]

\* DecisionEngine._ai_decision.  fb is <<>> when the coordinator's generate_structured was
\* not called and <<its outcome>> when it was; raised says whether an exception leaves
\* _ai_decision
AiDecision(ctx, provs, order, up, oracle) ==
    IF ~IsAnyAvailable(provs)
    THEN [raised |-> FALSE, decision |-> NoDecision, fb |-> <<>>]
    ELSE AiFromResult(GenerateStructured(order, provs, up, oracle, ctx.options))

IsVSCodeApp(app_name) ==
    Contains(ToLower(app_name), "visual studio code") \/ Contains(ToLower(app_name), "vscode")

\* mutant: the coordinator is consulted before the strategies are looked at
DecideResolveAiFirst(vs, app, ai, rule, needs_confirmation) ==
    IF ~vs.none
    THEN [raised |-> FALSE, decision |-> vs, path |-> "vscode", fb |-> ai.fb]
    ELSE IF ~app.none
    THEN [raised |-> FALSE, decision |-> app, path |-> "app", fb |-> ai.fb]
    ELSE IF ~ai.decision.none
    THEN [raised |-> FALSE,
          decision |-> [ai.decision EXCEPT !.requires_confirmation = needs_confirmation],
          path |-> "ai", fb |-> ai.fb]
    ELSE [raised |-> FALSE, decision |-> rule, path |-> "rule", fb |-> ai.fb]

\* mutant: neither _ai_decision nor decide catches the coordinator's RuntimeError
DecideResolveNoCatch(vs, app, ai, rule, needs_confirmation) ==
    IF ~vs.none
    THEN [raised |-> FALSE, decision |-> vs, path |-> "vscode", fb |-> <<>>]
    ELSE IF ~app.none
    THEN [raised |-> FALSE, decision |-> app, path |-> "app", fb |-> <<>>]
    ELSE IF ai.fb # <<>> /\ ai.fb[1].raised
    THEN [raised |-> TRUE, decision |-> NoDecision, path |-> "none", fb |-> ai.fb]
    ELSE IF ~ai.decision.none
    THEN [raised |-> FALSE,
          decision |-> [ai.decision EXCEPT !.requires_confirmation = needs_confirmation],
          path |-> "ai", fb |-> ai.fb]
    ELSE IF ~rule.none
    THEN [raised |-> FALSE,
          decision |-> [rule EXCEPT !.requires_confirmation = needs_confirmation],
          path |-> "rule", fb |-> ai.fb]
    ELSE [raised |-> FALSE, decision |-> NoDecision, path |-> "none", fb |-> ai.fb]

\* mutant: the rule-based default is applied before the backends' answer is looked at
DecideResolveRuleFirst(vs, app, ai, rule, needs_confirmation) ==
    IF ~vs.none
    THEN [raised |-> FALSE, decision |-> vs, path |-> "vscode", fb |-> <<>>]
    ELSE IF ~app.none
    THEN [raised |-> FALSE, decision |-> app, path |-> "app", fb |-> <<>>]
    ELSE IF ~rule.none
    THEN [raised |-> FALSE,
          decision |-> [rule EXCEPT !.requires_confirmation = needs_confirmation],
          path |-> "rule", fb |-> ai.fb]
    ELSE IF ~ai.raised /\ ~ai.decision.none
    THEN [raised |-> FALSE,
          decision |-> [ai.decision EXCEPT !.requires_confirmation = needs_confirmation],
          path |-> "ai", fb |-> ai.fb]
    ELSE [raised |-> FALSE, decision |-> NoDecision, path |-> "none", fb |-> ai.fb]

\* the body of decide, given what each step yields when it is reached: vs the VS Code
\* strategies, app the application strategies, ai the _ai_decision step, rule the
\* rule-based step.  A step's value is used only on the branch that reaches it.
DecideResolve(vs, app, ai, rule, needs_confirmation) ==
    IF ~vs.none
    THEN [raised |-> FALSE, decision |-> vs, path |-> "vscode", fb |-> <<>>]
    ELSE IF ~app.none
    THEN [raised |-> FALSE, decision |-> app, path |-> "app", fb |-> <<>>]
    ELSE IF ~ai.raised /\ ~ai.decision.none
    THEN [raised |-> FALSE,
          decision |-> [ai.decision EXCEPT !.requires_confirmation = needs_confirmation],
          path |-> "ai", fb |-> ai.fb]
    ELSE IF ~rule.none
    THEN [raised |-> FALSE,
          decision |-> [rule EXCEPT !.requires_confirmation = needs_confirmation],
          path |-> "rule", fb |-> ai.fb]
    ELSE [raised |-> FALSE, decision |-> NoDecision, path |-> "none", fb |-> ai.fb]

\* the VS Code branch of decide
VSCodeStep(ctx, simple, llm, up, gen) ==
    IF IsVSCodeApp(ctx.app_name)
    THEN IF simple THEN SimpleManagerDecide(ctx, llm, up, gen)
         ELSE VSCodeManagerDecide(ctx, llm, up, gen)
    ELSE NoDecision

\* DecisionEngine.decide.  simple = use_simple_vscode_strategy.  The result records the
\* Decision (or None), the resolution path that produced it, the coordinator calls made
\* (fb) and whether an exception leaves decide.
Decide(ctx, simple, provs, order, up, oracle, gen) ==
    DecideResolve(VSCodeStep(ctx, simple, FirstProvider(provs), up, gen),
                  AppManagerDecide(ctx),
                  AiDecision(ctx, provs, order, up, oracle),
                  RuleBasedDecision(ctx),
                  RequiresConfirmation(ctx.app_name))

(***************************************************************************)
(* Context Builder: agents/analyzer.py, Analyzer.  A UIElement is a record *)
(* [role, title, value]; a missing title or value is "".                  *)
(***************************************************************************)
UIElement(role, title, value) == [role |-> role, title |-> title, value |-> value]

\* Analyzer.__init__: dialog_keywords, in dict order
dialog_keywords ==
    << <<"save_confirmation", <<"save", "enregistrer", "kaydet", "guardar",
                                "don't save", "ne pas enregistrer", "kaydetme">> >>,
       <<"update_prompt", <<"update", "mise à jour", "güncelleme", "actualizar">> >>,
       <<"permission_request", <<"allow", "autoriser", "izin ver", "permitir",
                                 "deny", "refuser", "reddet", "denegar">> >>,
       <<"error_dialog", <<"error", "erreur", "hata", "failed", "échec">> >> >>

\* mutant: the last matching category of the dict wins
ClassifyDialogTypeLastWins(question, button_labels) ==
    LET combined_text == ToLower(question \o " " \o Join(button_labels, " "))
        hits == {k \in 1..Len(dialog_keywords) : AnyIn(LowerAll(dialog_keywords[k][2]), combined_text)}
    IN  IF hits # {} THEN dialog_keywords[CHOOSE a \in hits : \A b \in hits : a >= b][1]
        ELSE "generic"

\* Analyzer._classify_dialog_type
ClassifyDialogType(question, button_labels) ==
    LET combined_text == ToLower(question \o " " \o Join(button_labels, " "))
        hits == {k \in 1..Len(dialog_keywords) : AnyIn(LowerAll(dialog_keywords[k][2]), combined_text)}
    IN  IF hits # {} THEN dialog_keywords[CHOOSE a \in hits : \A b \in hits : a <= b][1]
        ELSE "generic"

\* Analyzer._extract_window_title ("" is None)
ExtractWindowTitle(elements) ==
    LET ws == {i \in 1..Len(elements) : elements[i].role \in {"AXWindow", "AXDialog"} /\ elements[i].title # ""}
    IN  IF ws # {} THEN elements[CHOOSE a \in ws : \A b \in ws : a <= b].title ELSE ""

IsButton(e) == e.role = "AXButton" /\ e.title # ""
IsText(e) == e.role \in {"AXStaticText", "AXTextField"} /\ e.value # ""

NoContext == [none |-> TRUE]

\* mutant: the empty question is not rejected
AnalyzeNoTextCheck(app_name, elements) ==
    LET buttons == SelectSeq(elements, IsButton)
        button_labels == [i \in 1..Len(buttons) |-> buttons[i].title]
        texts == SelectSeq(elements, IsText)
        question == Join([i \in 1..Len(texts) |-> texts[i].value], " ")
    IN  IF Len(button_labels) = 0 THEN NoContext
        ELSE [none |-> FALSE, app_name |-> app_name,
              window_title |-> ExtractWindowTitle(elements),
              dialog_type |-> ClassifyDialogType(question, button_labels),
              question |-> question, options |-> button_labels, elements |-> elements]

\* Analyzer.analyze
Analyze(app_name, elements) ==
    LET buttons == SelectSeq(elements, IsButton)
        button_labels == [i \in 1..Len(buttons) |-> buttons[i].title]
        texts == SelectSeq(elements, IsText)
        question == Join([i \in 1..Len(texts) |-> texts[i].value], " ")
    IN  IF Len(button_labels) = 0 THEN NoContext
        ELSE IF question = "" THEN NoContext
        ELSE [none |-> FALSE, app_name |-> app_name,
              window_title |-> ExtractWindowTitle(elements),
              dialog_type |-> ClassifyDialogType(question, button_labels),
              question |-> question, options |-> button_labels, elements |-> elements]

\* Actor.find_button_by_title: index of the first matching button, 0 for None
FindButtonByTitle(elements, title) ==
    LET bs == {i \in 1..Len(elements) : elements[i].role = "AXButton" /\ elements[i].title = title}
    IN  IF bs # {} THEN CHOOSE a \in bs : \A b \in bs : a <= b ELSE 0

(***************************************************************************)
(* Pipeline callback: main.py, SentryAI.on_dialog_detected.                *)
(***************************************************************************)
\* where one run of on_dialog_detected ended
RunResult(stage, ctx, res, executed, target, success) ==
    [stage |-> stage, ctx |-> ctx, res |-> res, executed |-> executed, target |-> target,
     success |-> success, inc |-> IF success THEN 1 ELSE 0]

\* steps 4 and 5: find the button, call Actor.execute on it
RunAct(ctx, res, target, exec_ok) ==
    IF target = 0 THEN RunResult("no_button", ctx, <<res>>, FALSE, 0, FALSE)
    ELSE RunResult("executed", ctx, <<res>>, TRUE, target, exec_ok)

\* mutant: step 3, the confirmation gate, is missing
RunGateNoConfirmation(ctx, res, exec_ok) ==
    IF res.raised THEN RunResult("error", ctx, <<res>>, FALSE, 0, FALSE)
    ELSE IF res.decision.none THEN RunResult("no_decision", ctx, <<res>>, FALSE, 0, FALSE)
    ELSE RunAct(ctx, res, FindButtonByTitle(ctx.elements, res.decision.chosen_option), exec_ok)

\* from the resolver's answer on: no decision, the confirmation gate, then the action
RunGate(ctx, res, exec_ok) ==
    IF res.raised THEN RunResult("error", ctx, <<res>>, FALSE, 0, FALSE)
    ELSE IF res.decision.none THEN RunResult("no_decision", ctx, <<res>>, FALSE, 0, FALSE)
    ELSE IF res.decision.requires_confirmation
    THEN RunResult("confirmation_required", ctx, <<res>>, FALSE, 0, FALSE)
    ELSE RunAct(ctx, res, FindButtonByTitle(ctx.elements, res.decision.chosen_option), exec_ok)

\* steps 1 and 2: analyze, then decide
RunAnalyzed(ctx, simple, provs, order, up, oracle, gen, exec_ok) ==
    IF ctx.none THEN RunResult("no_context", ctx, <<>>, FALSE, 0, FALSE)
    ELSE RunGate(ctx, Decide(ctx, simple, provs, order, up, oracle, gen), exec_ok)

\* One run of on_dialog_detected for event ev = [app_name, elements].  vision_handled:
\* handle_dialog_with_vision returned True (it clicks and counts by itself, without
\* Actor.execute); exec_ok: what Actor.execute returns.  The result says where the run
\* ended (stage), the context and resolution, whether Actor.execute was invoked
\* (executed) and on which element, and the counter increment.
OnDialogDetectedRun(ev, vision, vision_handled, simple, provs, order, up, oracle, gen, exec_ok) ==
    IF vision /\ Contains(ToLower(ev.app_name), "code") /\ vision_handled
    THEN [stage |-> "vision", ctx |-> NoContext, res |-> <<>>, executed |-> FALSE, target |-> 0,
          success |-> FALSE, inc |-> 1]
    ELSE RunAnalyzed(Analyze(ev.app_name, ev.elements), simple, provs, order, up, oracle, gen, exec_ok)

(***************************************************************************)
(* Deduplicator of the browser observer: agents/vscode_browser_observer.py *)
(***************************************************************************)
\* the option lists of the assistant's dialogs
YesNo == <<"Yes", "No">>
ClaudeOptions == <<"Yes", "Yes, and don't ask again", "No", "Tell Claude what to do instead">>

WhiteSpace == {" ", "\t", "\n", "\r"}

\* the literal lit occurs in s at position i
MatchAt(s, i, lit) == i + Len(lit) - 1 <= Len(s) /\ SubSeq(s, i, i + Len(lit) - 1) = lit

\* the position of the first newline at or after i, Len(s) + 1 when there is none
LineEnd(s, i) ==
    CHOOSE e \in i..(Len(s) + 1) :
        /\ (e = Len(s) + 1 \/ SubSeq(s, e, e) = "\n")
        /\ \A k \in i..(e - 1) : SubSeq(s, k, k) # "\n"

MaxOf(S) == CHOOSE a \in S : \A b \in S : b <= a
MinOf(S) == CHOOSE a \in S : \A b \in S : a <= b

\* `\s*(.+)` from position c, where the white space run from c ends at d: the group, or
\* <<>> without a match.  When the run reaches the end of the page the regex gives white
\* space back until (.+) can take one character that is not a newline.
BashGroupAfter(page, c, d) ==
    IF d <= Len(page) THEN <<SubSeq(page, d, LineEnd(page, d) - 1)>>
    ELSE IF \E k \in c..Len(page) : SubSeq(page, k, k) # "\n"
    THEN <<SubSeq(page, MaxOf({k \in c..Len(page) : SubSeq(page, k, k) # "\n"}),
                  MaxOf({k \in c..Len(page) : SubSeq(page, k, k) # "\n"}))>>
    ELSE <<>>

\* `\s*\n\s*\$` from position a, where the white space run from a ends at b
BashGroupFrom(page, a, b) ==
    IF /\ b <= Len(page)
       /\ SubSeq(page, b, b) = "$"
       /\ \E k \in a..(b - 1) : SubSeq(page, k, k) = "\n"
    THEN BashGroupAfter(page, b + 1, SpanWhile(page, b + 1, WhiteSpace))
    ELSE <<>>

BashLiteral == "Allow this bash command?"

\* bash_pattern matched with its literal at position i
BashGroupAt(page, i) ==
    IF MatchAt(page, i, BashLiteral)
    THEN BashGroupFrom(page, i + Len(BashLiteral), SpanWhile(page, i + Len(BashLiteral), WhiteSpace))
    ELSE <<>>

BashGroupFirst(page, hits) == IF hits = {} THEN <<>> ELSE BashGroupAt(page, MinOf(hits))

\* re.search(bash_pattern, page_content): group 1 of the leftmost match, <<>> for None
SearchBash(page) == BashGroupFirst(page, {i \in 1..Len(page) : BashGroupAt(page, i) # <<>>})

\* the positions q of a `?` that (.+\?) can end at when (.+) starts at s
QuestionEnds(page, s) ==
    IF s > Len(page) \/ SubSeq(page, s, s) = "\n" THEN {}
    ELSE {q \in (s + 1)..(LineEnd(page, s) - 1) : SubSeq(page, q, q) = "?"}

\* `\s*(.+\?)` from position a, where the white space run from a ends at d: the regex
\* tries the longest white space first, so the group starts at the largest start
QuestionGroupFrom(page, starts) ==
    IF starts = {} THEN <<>>
    ELSE <<SubSeq(page, MaxOf(starts), MaxOf(QuestionEnds(page, MaxOf(starts))))>>

QuestionGroupAt(page, i) ==
    IF MatchAt(page, i, "Claude:")
    THEN QuestionGroupFrom(page, {s \in (i + Len("Claude:"))..SpanWhile(page, i + Len("Claude:"), WhiteSpace) :
                                      QuestionEnds(page, s) # {}})
    ELSE <<>>

QuestionGroupFirst(page, hits) == IF hits = {} THEN <<>> ELSE QuestionGroupAt(page, MinOf(hits))

\* re.search(question_pattern, page_content)
SearchQuestion(page) ==
    QuestionGroupFirst(page, {i \in 1..Len(page) : QuestionGroupAt(page, i) # <<>>})

BrowserDialog(question, options) ==
    [none |-> FALSE, app_name |-> "Visual Studio Code (Browser)", window_title |-> "",
     dialog_type |-> "generic", question |-> question, options |-> options, elements |-> <<>>]

ParseFromGroups(page, bash, question) ==
    IF bash # <<>>
    THEN BrowserDialog("Allow this bash command?\n\n$ " \o Strip(bash[1]), ClaudeOptions)
    ELSE IF Contains(page, "Edit automatically") THEN BrowserDialog("Edit automatically?", YesNo)
    ELSE IF question # <<>> THEN BrowserDialog(Strip(question[1]), <<>>)
    ELSE NoContext

\* VSCodeBrowserObserver._parse_claude_dialog; the page "" stands for no content
ParseClaudeDialog(page) ==
    IF page = "" THEN NoContext ELSE ParseFromGroups(page, SearchBash(page), SearchQuestion(page))

\* hashlib.md5(content.encode()).hexdigest(): a digest that is the same for the same
\* content and, on the contents in scope, different for different contents
Md5(content) == "md5:" \o content

\* VSCodeBrowserObserver._hash_dialog
BrowserHashDialog(dialog) == Md5(dialog.question \o Join(dialog.options, ""))

\* mutant: the accepted key is not stored
BrowserCheckNoStore(dialog, last_hash) ==
    IF dialog.none THEN [out |-> NoContext, hash |-> last_hash]
    ELSE IF BrowserHashDialog(dialog) = last_hash THEN [out |-> NoContext, hash |-> last_hash]
    ELSE [out |-> dialog, hash |-> last_hash]

\* the duplicate check of detect_claude_dialog on the parsed dialog: what is returned
\* and the value of last_dialog_hash afterwards
BrowserCheck(dialog, last_hash) ==
    IF dialog.none THEN [out |-> NoContext, hash |-> last_hash]
    ELSE IF BrowserHashDialog(dialog) = last_hash THEN [out |-> NoContext, hash |-> last_hash]
    ELSE [out |-> dialog, hash |-> BrowserHashDialog(dialog)]

\* VSCodeBrowserObserver.detect_claude_dialog on the page _get_page_content yields
BrowserDetectRun(page, last_hash) == BrowserCheck(ParseClaudeDialog(page), last_hash)

(***************************************************************************)
(* Deduplicator of the accessibility observer: agents/vscode_observer.py.  *)
(* A window is [title, texts, buttons]: its title, the text_content and    *)
(* the button titles that _extract_elements_recursive collects from it.   *)
(***************************************************************************)
Window(title, texts, buttons) == [title |-> title, texts |-> texts, buttons |-> buttons]

claude_keywords ==
    <<"claude", "allow this bash command", "allow this command", "edit automatically",
      "tell claude what to do instead", "yes", "yes, and don't ask again", "no">>

\* VSCodeObserver._is_claude_dialog
IsClaudeDialog(texts, buttons) ==
    \/ AnyIn(claude_keywords, ToLower(Join(texts, " ")))
    \/ \E i \in 1..Len(buttons) : buttons[i] # "" /\ AnyIn(claude_keywords, ToLower(buttons[i]))

\* max(meaningful_text, key=len): the first text of the greatest length
FirstLongest(texts) ==
    texts[MinOf({i \in 1..Len(texts) : \A k \in 1..Len(texts) : Len(texts[k]) <= Len(texts[i])})]

\* VSCodeObserver._extract_question
ExtractQuestion(texts) ==
    IF texts = <<>> THEN "No question detected"
    ELSE IF SelectSeq(texts, LAMBDA t : Len(t) > 10) = <<>> THEN texts[1]
    ELSE FirstLongest(SelectSeq(texts, LAMBDA t : Len(t) > 10))

\* VSCodeObserver._analyze_window_for_claude_dialog
AnalyzeWindow(w) ==
    IF w.texts = <<>> /\ w.buttons = <<>> THEN NoContext
    ELSE IF IsClaudeDialog(w.texts, w.buttons)
    THEN [none |-> FALSE, app_name |-> "Visual Studio Code",
          window_title |-> IF w.title = "" THEN "VS Code" ELSE w.title,
          dialog_type |-> "permission_request",
          question |-> ExtractQuestion(w.texts),
          options |-> SelectSeq(w.buttons, LAMBDA b : b # ""),
          elements |-> [i \in 1..Len(w.texts) |-> UIElement("AXStaticText", "", w.texts[i])]
                       \o [i \in 1..Len(w.buttons) |-> UIElement("AXButton", w.buttons[i], "")]]
    ELSE NoContext

\* VSCodeObserver._hash_dialog
AxHashDialog(dialog) == dialog.app_name \o ":" \o dialog.question \o ":" \o Join(dialog.options, ",")

RECURSIVE AxWindowLoop(_, _, _)
\* the for loop of detect_claude_dialog over the windows from index i on
AxWindowLoop(dialogs, i, last_hash) ==
    IF i > Len(dialogs) THEN [out |-> NoContext, hash |-> last_hash]
    ELSE IF ~dialogs[i].none /\ AxHashDialog(dialogs[i]) # last_hash
    THEN [out |-> dialogs[i], hash |-> AxHashDialog(dialogs[i])]
    ELSE AxWindowLoop(dialogs, i + 1, last_hash)

\* mutant: a cycle that accepts no window forgets the last-accepted key
AxDetectRunForget(running, windows, last_hash) ==
    IF ~running \/ windows = <<>> THEN [out |-> NoContext, hash |-> last_hash]
    ELSE IF AxWindowLoop([i \in 1..Len(windows) |-> AnalyzeWindow(windows[i])], 1, last_hash).out.none
    THEN [out |-> NoContext, hash |-> "None"]
    ELSE AxWindowLoop([i \in 1..Len(windows) |-> AnalyzeWindow(windows[i])], 1, last_hash)

\* VSCodeObserver.detect_claude_dialog; running: VS Code runs and its application
\* element is found
AxDetectRun(running, windows, last_hash) ==
    IF ~running \/ windows = <<>> THEN [out |-> NoContext, hash |-> last_hash]
    ELSE AxWindowLoop([i \in 1..Len(windows) |-> AnalyzeWindow(windows[i])], 1, last_hash)

(***************************************************************************)
(* State.                                                                  *)
(***************************************************************************)
VARIABLES
    fallback_order,              \* LLMFallbackManager.fallback_order
    providers,                   \* LLMFallbackManager.providers (keys, in insertion order)
    ollama_up,                   \* whether the local Ollama server answers now
    use_simple_vscode_strategy,  \* DecisionEngine.use_simple_vscode_strategy
    use_computer_vision,         \* SentryAI.use_computer_vision
    actions_performed_today,     \* _system_state["actions_performed_today"]
    browser_last_dialog_hash,    \* VSCodeBrowserObserver.last_dialog_hash
    ax_last_dialog_hash,         \* VSCodeObserver.last_dialog_hash
    is_running,                  \* EventDrivenObserver.is_running
    app_observers,               \* EventDrivenObserver.app_observers (applications observed)
    callback_threads,            \* threads started by _on_window_event, still running
    detect_cycles,               \* detect_claude_dialog calls in progress on one observer
    vision_thread,               \* the vision monitor thread's position in its loop
    successes,                   \* how many automated actions succeeded since start
    watch_windows,               \* the windows VS Code shows to VSCodeObserver.watch
    watch_returned,              \* the dialogs watch handed to its callback for them
    last,                        \* the call in progress / just finished, with its outcome
    prev                         \* the call finished before it (observer cycles only)

vars == <<fallback_order, providers, ollama_up, use_simple_vscode_strategy, use_computer_vision,
          actions_performed_today, browser_last_dialog_hash, ax_last_dialog_hash,
          is_running, app_observers, callback_threads, detect_cycles, vision_thread,
          successes, watch_windows, watch_returned, last, prev>>

\* the state of the threads beside the pipeline's own
thread_vars == <<detect_cycles, vision_thread, successes, watch_windows, watch_returned>>

\* EventDrivenObserver.__init__: not running, no application observed, no thread started;
\* no other thread runs, no detection cycle is in progress, nothing was automated yet
EventObserverInit ==
    /\ is_running = FALSE
    /\ app_observers = {}
    /\ callback_threads = <<>>
    /\ detect_cycles = <<>>
    /\ vision_thread = [pc |-> "off", loaded |-> 0]
    /\ successes = 0
    /\ watch_windows = <<>>
    /\ watch_returned = <<>>

Idle == [op |-> "idle"]
None == "None"

(***************************************************************************)
(* Bounds and input sets.                                                  *)
(***************************************************************************)
MaxOrderLen == 2
MaxActions == 2

\* identities a configured order may name: two real backends and one unknown name
OrderNames == {"claude", "ollama", "mistral"}

RECURSIVE SeqsUpTo(_, _)
SeqsUpTo(S, n) ==
    IF n = 0 THEN {<<>>}
    ELSE LET shorter == SeqsUpTo(S, n - 1)
         IN  shorter \cup {Append(q, x) : q \in {t \in shorter : Len(t) = n - 1}, x \in S}

Orders == {DefaultFallbackOrder} \cup SeqsUpTo(OrderNames, MaxOrderLen)

\* API keys that may be configured (with their package importable)
KeySets == {{}, {"claude"}}

Responses == {"2. it is safer", "no idea"}
Outcomes == {FailOutcome} \cup {TextOutcome(t) : t \in Responses}

\* one outcome per position of the order; positions without a mapped instance are never
\* invoked, so they carry FailOutcome
Oracles(order, provs) ==
    {o \in [1..Len(order) -> Outcomes] :
        \A i \in 1..Len(order) : order[i] \notin ProviderSet(provs) => o[i] = FailOutcome}


OptionLists == {YesNo, <<>>, <<"Save", "Don't Save", "Cancel">>}

(***************************************************************************)
(* Actions shared by the specifications.                                   *)
(***************************************************************************)
\* the caller takes the result; nothing of the call is left but the persistent fields
Return ==
    /\ last # Idle
    /\ last' = Idle
    /\ prev' = IF last.op \in {"browser_detect", "ax_detect", "check_for_dialogs"} THEN last ELSE prev
    /\ UNCHANGED <<thread_vars, is_running, app_observers, callback_threads,
                   fallback_order, providers, ollama_up, use_simple_vscode_strategy,
                   use_computer_vision, actions_performed_today, browser_last_dialog_hash,
                   ax_last_dialog_hash>>

\* environment: the local Ollama server stops or starts between calls
OllamaServerChange ==
    /\ last = Idle
    /\ ollama_up' = ~ollama_up
    /\ UNCHANGED <<thread_vars, is_running, app_observers, callback_threads,
                   fallback_order, providers, use_simple_vscode_strategy, use_computer_vision,
                   actions_performed_today, browser_last_dialog_hash, ax_last_dialog_hash,
                   last, prev>>

(***************************************************************************)
(* SpecFallback: the Fallback Coordinator called directly.                 *)
(***************************************************************************)
\* state after LLMFallbackManager.__init__, for every configured order, key set and
\* Ollama server state at construction
InitFallback ==
    /\ fallback_order \in Orders
    /\ ollama_up \in BOOLEAN
    /\ \E keys \in KeySets : providers = InitializeProviders(ollama_up, keys)
    /\ use_simple_vscode_strategy = TRUE
    /\ use_computer_vision = FALSE
    /\ actions_performed_today = 0
    /\ browser_last_dialog_hash = None
    /\ ax_last_dialog_hash = None
    /\ last = Idle
    /\ EventObserverInit
    /\ prev = Idle

\* LLMFallbackManager.generate_structured(prompt, options, system_prompt)
CallGenerateStructured ==
    /\ last = Idle
    /\ \E options \in OptionLists, oracle \in Oracles(fallback_order, providers) :
          last' = [op |-> "generate_structured", options |-> options, oracle |-> oracle,
                   out |-> GenerateStructured(fallback_order, providers, ollama_up, oracle, options)]
    /\ UNCHANGED <<thread_vars, is_running, app_observers, callback_threads,
                   fallback_order, providers, ollama_up, use_simple_vscode_strategy,
                   use_computer_vision, actions_performed_today, browser_last_dialog_hash,
                   ax_last_dialog_hash, prev>>

NextFallback == CallGenerateStructured \/ OllamaServerChange \/ Return

SpecFallback == InitFallback /\ [][NextFallback]_vars

\* the coordinator call whose outcome the state shows, if any
FbCalled == last.op = "generate_structured"
FbTrace == last.out.trace
Invoked(e) == e.what \in {"fail", "ok"}

\* C1: in one call of generate_structured the identities are tried strictly in the
\* configured order: when the call returns the result of the identity at position k,
\* the positions 1..k-1 were each visited in order and either skipped (no mapped
\* instance) or invoked and failed, position k was invoked and its result is what is
\* returned, and no position after k was visited.
C1_StrictOrder ==
    (FbCalled /\ ~last.out.raised) =>
        LET k == Len(FbTrace)
        IN  /\ k >= 1 /\ k <= Len(fallback_order)
            /\ \A i \in 1..k : FbTrace[i].pos = i /\ FbTrace[i].name = fallback_order[i]
            /\ \A i \in 1..(k - 1) :
                  /\ FbTrace[i].what \in {"skip", "fail"}
                  /\ FbTrace[i].what = "skip" => fallback_order[i] \notin ProviderSet(providers)
            /\ FbTrace[k].what = "ok"
            /\ last.out.result =
                  ProviderGenerateStructured(fallback_order[k], ollama_up, last.oracle[k], last.options)

\* a call that returned a backend's result after at least one earlier backend had failed
C1_Witness ==
    /\ FbCalled /\ ~last.out.raised
    /\ Len(FbTrace) >= 2
    /\ \E i \in 1..Len(FbTrace) : FbTrace[i].what = "fail"

OkCount == Cardinality({i \in 1..Len(FbTrace) : FbTrace[i].what = "ok"})
InvokedTwice == \E i, j \in 1..Len(FbTrace) :
                    i < j /\ Invoked(FbTrace[i]) /\ Invoked(FbTrace[j]) /\ FbTrace[i].name = FbTrace[j].name
NoDuplicates(order) == \A i, j \in 1..Len(order) : order[i] = order[j] => i = j

\* C8 as stated: for every configured order, at most one invocation succeeds and no
\* identity is invoked more than once
C8_Original == FbCalled => (OkCount <= 1 /\ ~InvokedTwice)

\* C8 amended: at most one invocation succeeds for every configured order, and no
\* identity is invoked more than once when the order names each identity at most once
C8_AtMostOneSuccess ==
    FbCalled => /\ OkCount <= 1
                /\ NoDuplicates(fallback_order) => ~InvokedTwice

\* a call over a duplicate-free order in which one backend failed and the next succeeded
C8_Witness ==
    /\ FbCalled /\ NoDuplicates(fallback_order)
    /\ OkCount = 1
    /\ \E i \in 1..Len(FbTrace) : FbTrace[i].what = "fail"

\* instance.is_available() of the instance mapped to name, evaluated now
ReportsAvailableNow(name) == name \in ProviderSet(providers) /\ (name = "ollama" => ollama_up)

\* C9 as stated: an identity whose mapped instance reports unavailable at the time of the
\* attempt is skipped without being invoked
C9_Original ==
    FbCalled => \A i \in 1..Len(FbTrace) : ~ReportsAvailableNow(FbTrace[i].name) => FbTrace[i].what = "skip"

\* C9 amended: an identity that has no mapped instance (its backend reported unavailable
\* when the coordinator was constructed, or the name is unknown) is skipped without
\* being invoked and the loop moves on to the next position; availability is not
\* asked again at the time of the attempt
C9_SkipUnregistered ==
    FbCalled => \A i \in 1..Len(FbTrace) :
        fallback_order[FbTrace[i].pos] \notin ProviderSet(providers) =>
            /\ FbTrace[i].what = "skip"
            /\ FbTrace[i].pos < Len(fallback_order) =>
                  Len(FbTrace) > i /\ FbTrace[i + 1].pos = FbTrace[i].pos + 1

\* a call that skipped an unregistered identity and then invoked the next one
C9_Witness ==
    /\ FbCalled
    /\ \E i \in 1..(Len(FbTrace) - 1) : FbTrace[i].what = "skip" /\ Invoked(FbTrace[i + 1])

(***************************************************************************)
(* Spec: the Decision Resolver called directly (as the tests do) and the    *)
(* pipeline callback run on observer events.                               *)
(***************************************************************************)
Dialog(app_name, question, options) == [app_name |-> app_name, question |-> question, options |-> options]

VSCode == "Visual Studio Code"

\* the dialogs shown: command approvals of the assistant in VS Code, an edit prompt, a
\* free question, and dialogs of desktop applications with and without a strategy
Dialogs ==
    { Dialog(VSCode, "Allow this bash command?\n$ ls -la", ClaudeOptions),
      Dialog(VSCode, "Allow this bash command?\n$ sudo rm -rf build", ClaudeOptions),
      Dialog(VSCode, "Claude wants to run echo hi\n$ sudo rm x", ClaudeOptions),
      Dialog(VSCode, "Allow this command?\n$ make all", <<"Allow", "Deny">>),
      Dialog(VSCode, "Edit automatically?", YesNo),
      Dialog(VSCode, "Allow this command?\n$ ls -la\nEdit automatically?", <<"Allow", "Deny">>),
      Dialog(VSCode, "Which file should I use?", <<>>),
      Dialog("TextEdit", "Do you want to save the changes?", <<"Save", "Don't Save", "Cancel">>),
      Dialog("TextEdit", "Save before closing?", <<"Don't Save", "Cancel">>),
      Dialog("Finder", "Delete the file?", <<"Move to Trash", "Keep">>),
      Dialog("Preview", "Export failed. Retry?", <<"Retry", "Cancel">>),
      Dialog("Mail", "Send now?", <<"Send", "Cancel">>),
      Dialog("Mail", "Delete this message?", <<"Delete", "Cancel">>),
      Dialog("Preview", "Nothing to do", <<"Cancel", "No">>),
      Dialog("Preview", "Proceed?", <<>>) }

\* the accessibility elements of a dialog: its text, then one button per option
ElementsOf(d) ==
    <<UIElement("AXStaticText", "", d.question)>>
        \o [i \in 1..Len(d.options) |-> UIElement("AXButton", d.options[i], "")]

\* a DialogContext as a caller of decide constructs it
DialogContextOf(d) ==
    [none |-> FALSE, app_name |-> d.app_name, window_title |-> "",
     dialog_type |-> ClassifyDialogType(d.question, d.options),
     question |-> d.question, options |-> d.options, elements |-> ElementsOf(d)]

Contexts == {DialogContextOf(d) : d \in Dialogs}

\* what the first registered backend does when a VS Code strategy asks it for free
\* text; no such call is possible for other applications or without a backend
Gens(app_name, provs) ==
    IF IsVSCodeApp(app_name) /\ provs # <<>> THEN Outcomes ELSE {FailOutcome}

\* the orders configured in the resolver and pipeline runs
ConfiguredOrders == {DefaultFallbackOrder, <<"ollama", "claude">>, <<"mistral", "ollama">>}

\* state after the module-level LLMFallbackManager() and DecisionEngine.__init__
Init ==
    /\ fallback_order \in ConfiguredOrders
    /\ ollama_up \in BOOLEAN
    /\ \E keys \in KeySets : providers = InitializeProviders(ollama_up, keys)
    /\ use_simple_vscode_strategy \in BOOLEAN
    /\ use_computer_vision = FALSE
    /\ actions_performed_today = 0
    /\ browser_last_dialog_hash = None
    /\ ax_last_dialog_hash = None
    /\ last = Idle
    /\ EventObserverInit
    /\ prev = Idle

\* DecisionEngine.decide(context)
CallDecide ==
    /\ last = Idle
    /\ \E ctx \in Contexts, oracle \in Oracles(fallback_order, providers) :
        \E gen \in Gens(ctx.app_name, providers) :
          last' = [op |-> "decide", ctx |-> ctx, oracle |-> oracle, gen |-> gen,
                   out |-> Decide(ctx, use_simple_vscode_strategy, providers,
                                  fallback_order, ollama_up, oracle, gen)]
    /\ UNCHANGED <<thread_vars, is_running, app_observers, callback_threads,
                   fallback_order, providers, ollama_up, use_simple_vscode_strategy,
                   use_computer_vision, actions_performed_today, browser_last_dialog_hash,
                   ax_last_dialog_hash, prev>>

Next == CallDecide \/ OllamaServerChange \/ Return

Spec == Init /\ [][Next]_vars

\* the resolution whose outcome the state shows, if any
Decided == last.op = "decide"

\* a pattern strategy or a per-application strategy returns a Decision for the dialog
StrategyDecides(ctx, gen) ==
    \/ ~VSCodeStep(ctx, use_simple_vscode_strategy, FirstProvider(providers), ollama_up, gen).none
    \/ ~AppManagerDecide(ctx).none

\* C2: whenever a VS Code pattern strategy or a per-application strategy returns a
\* Decision for the dialog, decide returns without a single call of the coordinator's
\* generate_structured, also when backends are registered.
C2_StrategyShortCircuit ==
    (Decided /\ StrategyDecides(last.ctx, last.gen)) =>
        /\ last.out.fb = <<>>
        /\ last.out.path \in {"vscode", "app"}
        /\ ~last.out.decision.none

\* a strategy decided although a backend was registered and the coordinator could have
\* been asked
C2_Witness ==
    /\ Decided /\ StrategyDecides(last.ctx, last.gen)
    /\ IsAnyAvailable(providers)
    /\ last.out.path = "app"

\* C3 as stated: every Decision returned for a dialog with a non-empty options sequence
\* has a chosen_option that is one of the dialog's options.
C3_Original ==
    (Decided /\ ~last.out.decision.none /\ last.ctx.options # <<>>) =>
        InList(last.out.decision.chosen_option, last.ctx.options)

\* the coordinator was called and no backend produced a result
AllBackendsFailed(res) ==
    /\ res.fb # <<>>
    /\ \A i \in 1..Len(res.fb[1].trace) : res.fb[1].trace[i].what # "ok"

\* what the rule-based step yields once decide has set the confirmation flag
RuleDefault(ctx) ==
    IF RuleBasedDecision(ctx).none THEN NoDecision
    ELSE [RuleBasedDecision(ctx) EXCEPT !.requires_confirmation = RequiresConfirmation(ctx.app_name)]

\* C7: when decide reaches the coordinator and every configured identity fails or is
\* skipped, generate_structured raises; the exception does not leave decide, and decide
\* returns exactly what the rule-based default yields for the dialog (None when the
\* dialog has no options).  When no backend is registered at all, decide does not call
\* the coordinator and returns the rule-based default as well.
C7_FallThroughToRules ==
    (Decided /\ ~StrategyDecides(last.ctx, last.gen)) =>
        /\ AllBackendsFailed(last.out) =>
              /\ last.out.fb[1].raised
              /\ ~last.out.raised
              /\ last.out.path \in {"rule", "none"}
              /\ last.out.decision = RuleDefault(last.ctx)
        /\ ~IsAnyAvailable(providers) =>
              /\ last.out.fb = <<>>
              /\ ~last.out.raised
              /\ last.out.decision = RuleDefault(last.ctx)

\* a backend was invoked and failed, the coordinator raised, and the rule-based default
\* produced the Decision
C7_Witness ==
    /\ Decided /\ AllBackendsFailed(last.out)
    /\ \E i \in 1..Len(last.out.fb[1].trace) : last.out.fb[1].trace[i].what = "fail"
    /\ last.out.path = "rule"
    /\ ~last.out.decision.none

\* C12 as stated: every Decision that decide returns for an application listed in
\* require_confirmation_for has requires_confirmation = true, whichever path produced it.
C12_Original ==
    (Decided /\ ~last.out.decision.none /\ RequiresConfirmation(last.ctx.app_name)) =>
        last.out.decision.requires_confirmation

\* what each pattern strategy of VSCodeStrategyManager yields for the dialog, in
\* priority order: its Decision when it reports can_handle, nothing otherwise
PatternDecisions(ctx, llm, up, gen) ==
    << IF BashCanHandle(ctx) THEN BashDecide(ctx, TRUE, TRUE) ELSE NoDecision,
       IF EditCanHandle(ctx) THEN EditDecide(ctx, TRUE) ELSE NoDecision,
       IF QuestionCanHandle(ctx) THEN QuestionDecide(ctx, llm, up, gen) ELSE NoDecision >>

\* the first Decision of a priority list, skipping the strategies that returned nothing
FirstDecided(ds) ==
    IF \A i \in 1..Len(ds) : ds[i].none THEN NoDecision
    ELSE ds[CHOOSE i \in 1..Len(ds) : ~ds[i].none /\ \A k \in 1..(i - 1) : ds[k].none]

\* C19 as stated, for the pattern strategy list: when a strategy that reports
\* can_handle returns nothing, the next strategies are asked, so decide returns the
\* first Decision that any handling strategy of the list produces.
C19_Original ==
    (/\ Decided /\ IsVSCodeApp(last.ctx.app_name) /\ ~use_simple_vscode_strategy
     /\ ~FirstDecided(PatternDecisions(last.ctx, FirstProvider(providers), ollama_up, last.gen)).none)
    => /\ last.out.path = "vscode"
       /\ last.out.decision =
             FirstDecided(PatternDecisions(last.ctx, FirstProvider(providers), ollama_up, last.gen))

\* decide was asked about a free-text question (no options) that only the question
\* strategy of VSCodeStrategyManager handles, and every backend behaves on the free-text
\* request as the cycle's oracle says (the first provider included)
FreeTextQuestion ==
    /\ Decided /\ IsVSCodeApp(last.ctx.app_name) /\ ~use_simple_vscode_strategy
    /\ last.ctx.options = <<>>
    /\ QuestionCanHandle(last.ctx) /\ ~BashCanHandle(last.ctx) /\ ~EditCanHandle(last.ctx)
    /\ \A i \in 1..Len(fallback_order) :
          <<fallback_order[i]>> = FirstProvider(providers) => last.gen = last.oracle[i]

\* C21 as stated: for a free-text question the answer is produced through the Fallback
\* Coordinator: whenever trying the registered backends in fallback_order (a failure
\* advancing to the next) yields a text, that text is the Decision's chosen_option.
C21_Original ==
    (FreeTextQuestion /\ ~Generate(fallback_order, providers, ollama_up, last.oracle).raised) =>
        /\ ~last.out.decision.none
        /\ last.out.decision.chosen_option =
              Generate(fallback_order, providers, ollama_up, last.oracle).text

\* decide was asked about a TextEdit dialog whose question mentions saving and which
\* offers "Don't Save" in some letter case
TextEditSaveDialog ==
    /\ Decided /\ last.ctx.app_name = "TextEdit"
    /\ Contains(ToLower(last.ctx.question), "save")
    /\ \E i \in 1..Len(last.ctx.options) : ToLower(last.ctx.options[i]) = "don't save"

\* C27: for such a TextEdit dialog decide returns the per-application strategy's
\* Decision "Save" with requires_confirmation = false, with or without a registered
\* backend and whatever the backends would have answered
C27_TextEditSave ==
    TextEditSaveDialog =>
        /\ ~last.out.raised /\ ~last.out.decision.none
        /\ last.out.path = "app"
        /\ last.out.decision.chosen_option = "Save"
        /\ ~last.out.decision.requires_confirmation
        /\ last.out.fb = <<>>

\* the TextEdit save dialog was decided "Save" while a backend was registered that
\* would have answered
C27_Witness ==
    /\ TextEditSaveDialog
    /\ Len(providers) > 0
    /\ \E i \in 1..Len(last.oracle) : ~last.oracle[i].fail
    /\ last.out.decision.chosen_option = "Save"

(***************************************************************************)
(* SpecPipeline: the pipeline callback run on observer events.             *)
(***************************************************************************)
\* an ObserverEvent for a dialog
EventOf(d) == [app_name |-> d.app_name, elements |-> ElementsOf(d)]

\* the events delivered: one per dialog; for a dialog without options the observer
\* delivers a window without buttons
Events == {EventOf(d) : d \in Dialogs}

PipelineOrders == {DefaultFallbackOrder, <<"ollama", "claude">>}

\* state after the module-level LLMFallbackManager() and SentryAI.__init__
InitPipeline ==
    /\ fallback_order \in PipelineOrders
    /\ ollama_up \in BOOLEAN
    /\ \E keys \in KeySets : providers = InitializeProviders(ollama_up, keys)
    /\ use_simple_vscode_strategy \in BOOLEAN
    /\ use_computer_vision \in BOOLEAN
    /\ actions_performed_today = 0
    /\ browser_last_dialog_hash = None
    /\ ax_last_dialog_hash = None
    /\ last = Idle
    /\ EventObserverInit
    /\ prev = Idle

\* one backend answer per position, the same text at every position
PipelineOracles(order, provs) ==
    {o \in Oracles(order, provs) : \A i, j \in 1..Len(order) : ~o[i].fail /\ ~o[j].fail => o[i] = o[j]}

\* SentryAI.on_dialog_detected(event); the counter is module state the callback updates
OnDialogDetected ==
    /\ last = Idle
    /\ actions_performed_today < MaxActions
    /\ \E ev \in Events, oracle \in PipelineOracles(fallback_order, providers), exec_ok \in BOOLEAN :
        \E gen \in Gens(ev.app_name, providers),
           vision_handled \in (IF use_computer_vision THEN BOOLEAN ELSE {FALSE}) :
          /\ last' = [op |-> "on_dialog_detected", ev |-> ev,
                      out |-> OnDialogDetectedRun(ev, use_computer_vision, vision_handled,
                                                  use_simple_vscode_strategy, providers,
                                                  fallback_order, ollama_up, oracle, gen, exec_ok)]
          /\ actions_performed_today' = actions_performed_today + last'.out.inc
    /\ UNCHANGED <<thread_vars, is_running, app_observers, callback_threads,
                   fallback_order, providers, ollama_up, use_simple_vscode_strategy,
                   use_computer_vision, browser_last_dialog_hash, ax_last_dialog_hash, prev>>

NextPipeline == OnDialogDetected \/ OllamaServerChange \/ Return

SpecPipeline == InitPipeline /\ [][NextPipeline]_vars

\* the pipeline run whose outcome the state shows, if any
PipelineRan == last.op = "on_dialog_detected"

\* the run obtained a Decision that requires confirmation
ConfirmationRequired(out) ==
    /\ out.res # <<>>
    /\ ~out.res[1].raised
    /\ ~out.res[1].decision.none
    /\ out.res[1].decision.requires_confirmation

\* C4: a run of on_dialog_detected whose Decision has requires_confirmation = true ends
\* at the confirmation gate: Actor.execute is not invoked, no element is targeted and
\* the counter is not incremented.
C4_NoExecuteOnConfirmation ==
    (PipelineRan /\ ConfirmationRequired(last.out)) =>
        /\ ~last.out.executed
        /\ last.out.stage = "confirmation_required"
        /\ last.out.inc = 0

\* a run stopped at the gate although the chosen option is a button of the dialog
C4_Witness ==
    /\ PipelineRan /\ ConfirmationRequired(last.out)
    /\ FindButtonByTitle(last.ev.elements, last.out.res[1].decision.chosen_option) # 0

(***************************************************************************)
(* SpecCommand: the command-approval strategy applied to prompts.          *)
(***************************************************************************)
MaxPreface == 2

\* lines a prompt may carry before its command line
PrefaceLines == {"Allow this bash command?", "", "Claude wants to run echo hi"}

\* how the command line starts: with the `$` marker, or bare
Markers == {"$ ", ""}

Commands == {"ls -la", "rm -rf /", "sudo rm -rf build && echo done", "make all", "git add .", "cat a > b"}

Prompts ==
    {Join(preface \o <<m \o c>>, "\n") : preface \in SeqsUpTo(PrefaceLines, MaxPreface),
                                        m \in Markers, c \in Commands}

CommandOptionLists == {ClaudeOptions, YesNo}

\* ClaudeBashCommandStrategy._extract_command(question)
CallExtractCommand ==
    /\ last = Idle
    /\ \E question \in Prompts :
          last' = [op |-> "extract_command", question |-> question, out |-> ExtractCommand(question)]
    /\ UNCHANGED <<thread_vars, is_running, app_observers, callback_threads,
                   fallback_order, providers, ollama_up, use_simple_vscode_strategy,
                   use_computer_vision, actions_performed_today, browser_last_dialog_hash,
                   ax_last_dialog_hash, prev>>

\* ClaudeBashCommandStrategy (auto_approve and safe_commands_only at their defaults, as
\* VSCodeStrategyManager constructs it): can_handle, then decide
CallBashStrategy ==
    /\ last = Idle
    /\ \E question \in Prompts, options \in CommandOptionLists :
        LET ctx == DialogContextOf(Dialog(VSCode, question, options))
        IN  /\ BashCanHandle(ctx)
            /\ last' = [op |-> "bash_decide", ctx |-> ctx, out |-> BashDecide(ctx, TRUE, TRUE)]
    /\ UNCHANGED <<thread_vars, is_running, app_observers, callback_threads,
                   fallback_order, providers, ollama_up, use_simple_vscode_strategy,
                   use_computer_vision, actions_performed_today, browser_last_dialog_hash,
                   ax_last_dialog_hash, prev>>

\* the strategy reads no state: the configuration is the default one with no backend
InitCommand ==
    /\ fallback_order = DefaultFallbackOrder
    /\ ollama_up = FALSE
    /\ providers = InitializeProviders(FALSE, {})
    /\ use_simple_vscode_strategy = FALSE
    /\ use_computer_vision = FALSE
    /\ actions_performed_today = 0
    /\ browser_last_dialog_hash = None
    /\ ax_last_dialog_hash = None
    /\ last = Idle
    /\ EventObserverInit
    /\ prev = Idle

NextCommand == CallExtractCommand \/ CallBashStrategy \/ Return

SpecCommand == InitCommand /\ [][NextCommand]_vars

\* the stripped lines of a prompt that start with the `$` marker
MarkedLines(question) ==
    SelectSeq([i \in 1..Len(SplitOn(question, "\n")) |-> Strip(SplitOn(question, "\n")[i])],
              LAMBDA line : StartsWith(line, "$"))

HasMarker(question) == MarkedLines(question) # <<>>

\* the literal text following the `$` marker
MarkedCommand(question) == Strip(SubSeq(MarkedLines(question)[1], 2, Len(MarkedLines(question)[1])))

\* C6 as stated: for every prompt that has a line starting with `$`, _extract_command
\* returns the rest of that line, whatever other lines precede it.
C6_Original ==
    (last.op = "extract_command" /\ HasMarker(last.question)) =>
        last.out = MarkedCommand(last.question)

\* C5 as stated: for every command-approval dialog whose command (the text following the
\* `$` marker) contains a dangerous keyword, the Decision is "No" with
\* requires_confirmation = true, also when the command contains a safe keyword.
C5_Original ==
    (/\ last.op = "bash_decide"
     /\ HasMarker(last.ctx.question)
     /\ IsDangerousCommand(MarkedCommand(last.ctx.question))) =>
        /\ ~last.out.none
        /\ last.out.chosen_option = "No"
        /\ last.out.requires_confirmation

\* the text contains, case-insensitively, a keyword of the list
HasKeyword(text, keywords) ==
    \E k \in 1..Len(keywords) : Contains(ToLower(text), ToLower(keywords[k]))

\* decide ran on a dialog offering "Yes" whose command, as decide extracts it, contains
\* a safe keyword and no dangerous keyword
SafeCommandWithYes ==
    /\ last.op = "bash_decide"
    /\ HasKeyword(ExtractCommand(last.ctx.question), safe_patterns)
    /\ ~HasKeyword(ExtractCommand(last.ctx.question), dangerous_patterns)
    /\ \E i \in 1..Len(last.ctx.options) : last.ctx.options[i] = "Yes"

MaxWindows == 2

\* what _get_page_content yields in a cycle; "" is no content
Pages ==
    { "",
      "Claude Code\nAllow this bash command?\n\n$ ls -la\nYes  No",
      "Allow this bash command?\n$ npm test",
      "Terminal\nAllow this bash command?\n  $   ls -la  ",
      "Changes pending\nEdit automatically\nYes No",
      "Claude: Which file should I use?\nType here",
      "Welcome to the editor" }

\* the windows VS Code may show: two assistant dialogs and an editor window
ScreenWindows ==
    { Window("Claude", <<"Allow this bash command?", "$ ls -la">>, <<"Yes", "No">>),
      Window("", <<"Edit automatically?">>, <<"Yes", "No">>),
      Window("main.py", <<"def f(): pass">>, <<>>) }

\* a question of the assistant offering two files as one choice or as two choices; such
\* a window is the only window when it shows
FileQuestionWindows ==
    { Window("Claude", <<"Claude: which files?">>, <<"a.py,b.py">>),
      Window("Claude", <<"Claude: which files?">>, <<"a.py", "b.py">>) }

WindowLists == SeqsUpTo(ScreenWindows, MaxWindows) \cup {<<w>> : w \in FileQuestionWindows}

\* state after the construction of the two observers
InitDedup ==
    /\ fallback_order = DefaultFallbackOrder
    /\ ollama_up = FALSE
    /\ providers = InitializeProviders(FALSE, {})
    /\ use_simple_vscode_strategy = TRUE
    /\ use_computer_vision = FALSE
    /\ actions_performed_today = 0
    /\ browser_last_dialog_hash = None
    /\ ax_last_dialog_hash = None
    /\ last = Idle
    /\ EventObserverInit
    /\ prev = Idle

\* VSCodeBrowserObserver.detect_claude_dialog()
BrowserDetect ==
    /\ last = Idle
    /\ \E page \in Pages :
          /\ last' = [op |-> "browser_detect", input |-> page, shown |-> <<ParseClaudeDialog(page)>>,
                      before |-> browser_last_dialog_hash,
                      out |-> BrowserDetectRun(page, browser_last_dialog_hash).out]
          /\ browser_last_dialog_hash' = BrowserDetectRun(page, browser_last_dialog_hash).hash
    /\ UNCHANGED <<thread_vars, is_running, app_observers, callback_threads,
                   fallback_order, providers, ollama_up, use_simple_vscode_strategy,
                   use_computer_vision, actions_performed_today, ax_last_dialog_hash, prev>>

\* VSCodeObserver.detect_claude_dialog()
AxDetect ==
    /\ last = Idle
    /\ \E running \in BOOLEAN, windows \in WindowLists :
          /\ last' = [op |-> "ax_detect", input |-> <<running, windows>>,
                      shown |-> IF running
                                THEN SelectSeq([i \in 1..Len(windows) |-> AnalyzeWindow(windows[i])],
                                               LAMBDA d : ~d.none)
                                ELSE <<>>,
                      before |-> ax_last_dialog_hash,
                      out |-> AxDetectRun(running, windows, ax_last_dialog_hash).out]
          /\ ax_last_dialog_hash' = AxDetectRun(running, windows, ax_last_dialog_hash).hash
    /\ UNCHANGED <<thread_vars, is_running, app_observers, callback_threads,
                   fallback_order, providers, ollama_up, use_simple_vscode_strategy,
                   use_computer_vision, actions_performed_today, browser_last_dialog_hash, prev>>

NextDedup == BrowserDetect \/ AxDetect \/ Return

SpecDedup == InitDedup /\ [][NextDedup]_vars

\* the cycle the state shows and the cycle before it belong to the same observer and
\* were given the same single dialog
SameDialogTwice(op) ==
    /\ last.op = op /\ prev.op = op
    /\ Len(last.shown) = 1 /\ ~last.shown[1].none
    /\ prev.shown = last.shown

\* the dedup key of a dialog under the observer of cycle c
KeyIn(c, dialog) == IF c.op = "browser_detect" THEN BrowserHashDialog(dialog) ELSE AxHashDialog(dialog)

\* the value of the observer's last_dialog_hash after cycle c
HashNow(c) == IF c.op = "browser_detect" THEN browser_last_dialog_hash ELSE ax_last_dialog_hash

Accepted(c) == ~c.out.none
Rejected(c) == c.out.none

\* C10: when the same dialog is submitted to an observer's detect_claude_dialog in two
\* successive cycles, the second submission is rejected (None is returned and the
\* last-accepted key stays what it was), and the first one is accepted and returned
\* unless the dialog's key already was the last-accepted key; so from a fresh observer,
\* or after a dialog with another key, exactly one of the two is accepted and one is
\* rejected.  This holds for the browser observer and for the accessibility observer.
C10_OnceAcceptedOnceRejected ==
    \A op \in {"browser_detect", "ax_detect"} :
        SameDialogTwice(op) =>
            /\ Rejected(last)
            /\ HashNow(last) = last.before
            /\ HashNow(last) = KeyIn(last, last.shown[1])
            /\ prev.before # KeyIn(prev, prev.shown[1]) => prev.out = prev.shown[1]
            /\ prev.before = KeyIn(prev, prev.shown[1]) => Rejected(prev)

\* a dialog accepted and then rejected by the browser observer after another dialog had
\* been accepted before it
C10_Witness ==
    /\ SameDialogTwice("browser_detect")
    /\ prev.before # None
    /\ Accepted(prev) /\ Rejected(last)

\* cycle c of an observer was given exactly one dialog
OneDialog(c, op) == c.op = op /\ Len(c.shown) = 1 /\ ~c.shown[1].none

\* dialog A (the one of the cycle the state shows) was the last accepted one when the
\* cycle before was given a dialog B with another key, which was accepted
AcceptedABThenA(op) ==
    /\ OneDialog(last, op) /\ OneDialog(prev, op)
    /\ prev.before = KeyIn(last, last.shown[1])
    /\ KeyIn(prev, prev.shown[1]) # KeyIn(last, last.shown[1])
    /\ Accepted(prev)

\* C28: each observer keeps a single last-accepted key: when A was accepted, then a
\* dialog B with another key was accepted, A submitted again is accepted and returned;
\* and a cycle that accepts nothing leaves the last-accepted key unchanged
C28_SingleKey ==
    \A op \in {"browser_detect", "ax_detect"} :
        /\ AcceptedABThenA(op) =>
              /\ Accepted(last) /\ last.out = last.shown[1]
              /\ HashNow(last) = KeyIn(last, last.shown[1])
        /\ (last.op = op /\ Rejected(last)) => HashNow(last) = last.before

\* the accessibility observer accepted A again right after it had accepted B
C28_Witness ==
    /\ AcceptedABThenA("ax_detect")
    /\ Accepted(last)
    /\ last.before = KeyIn(prev, prev.shown[1])

\* C29 as stated: an observer rejects a dialog only if its app_name, question and
\* options are all equal to those of the last accepted dialog.
C29_Original ==
    \A op \in {"browser_detect", "ax_detect"} :
        (/\ OneDialog(prev, op) /\ Accepted(prev)
         /\ OneDialog(last, op) /\ Rejected(last)) =>
            /\ last.shown[1].app_name = prev.shown[1].app_name
            /\ last.shown[1].question = prev.shown[1].question
            /\ last.shown[1].options = prev.shown[1].options

(***************************************************************************)
(* SpecObserver: the polling Observer (agents/observer.py) delivering the  *)
(* active window to the pipeline callback, cycle after cycle.              *)
(***************************************************************************)
\* Settings.blacklist_apps default (whitelist_apps is None by default)
blacklist_apps ==
    <<"Terminal", "iTerm", "Keychain Access", "System Preferences", "System Settings",
      "Activity Monitor", "Disk Utility">>

\* core/config.py is_app_allowed
IsAppAllowed(app_name) == ~InList(app_name, blacklist_apps)

IsAXButton(e) == e.role = "AXButton"
IsAXText(e) == e.role \in {"AXStaticText", "AXTextField"}

\* Observer._is_dialog: at least two buttons and some text
ObserverIsDialog(elements) ==
    Len(SelectSeq(elements, IsAXButton)) >= 2 /\ Len(SelectSeq(elements, IsAXText)) >= 1

\* Observer._check_for_dialogs with the active application app_name showing elements;
\* run is what the callback does with the event when it is emitted.  The observer keeps
\* no record of the events it emitted (last_checked_app is never read or written again)
CheckForDialogsRun(app_name, elements, run) ==
    IF ~IsAppAllowed(app_name) THEN [emitted |-> FALSE, out |-> <<>>]
    ELSE IF elements # <<>> /\ ObserverIsDialog(elements)
    THEN [emitted |-> TRUE, out |-> <<run>>]
    ELSE [emitted |-> FALSE, out |-> <<>>]

\* what the active application shows in a cycle
Screens ==
    { EventOf(Dialog("TextEdit", "Do you want to save the changes?", <<"Save", "Don't Save", "Cancel">>)),
      EventOf(Dialog("Preview", "Export failed. Retry?", <<"Retry", "Cancel">>)),
      EventOf(Dialog("Mail", "Send now?", <<"Send", "Cancel">>)),
      EventOf(Dialog(VSCode, "Edit automatically?", YesNo)),
      EventOf(Dialog("Terminal", "Close this window?", <<"Close", "Cancel">>)),
      EventOf(Dialog("Preview", "Export finished", <<"OK">>)) }

\* state after the module-level LLMFallbackManager() and SentryAI.__init__ in polling mode
InitObserver ==
    /\ fallback_order = DefaultFallbackOrder
    /\ ollama_up \in BOOLEAN
    /\ \E keys \in KeySets : providers = InitializeProviders(ollama_up, keys)
    /\ use_simple_vscode_strategy \in BOOLEAN
    /\ use_computer_vision = FALSE
    /\ actions_performed_today = 0
    /\ browser_last_dialog_hash = None
    /\ ax_last_dialog_hash = None
    /\ last = Idle
    /\ EventObserverInit
    /\ prev = Idle

\* one cycle of Observer.start: _check_for_dialogs, the callback included
CheckForDialogs ==
    /\ last = Idle
    /\ actions_performed_today < MaxActions
    /\ \E scr \in Screens, oracle \in PipelineOracles(fallback_order, providers), exec_ok \in BOOLEAN :
        \E gen \in Gens(scr.app_name, providers) :
          /\ last' = [op |-> "check_for_dialogs", app_name |-> scr.app_name,
                      elements |-> scr.elements,
                      out |-> CheckForDialogsRun(scr.app_name, scr.elements,
                                 OnDialogDetectedRun(scr, use_computer_vision, FALSE,
                                                     use_simple_vscode_strategy, providers,
                                                     fallback_order, ollama_up, oracle, gen,
                                                     exec_ok))]
          /\ actions_performed_today' =
                actions_performed_today + (IF last'.out.emitted THEN last'.out.out[1].inc ELSE 0)
    /\ UNCHANGED <<thread_vars, is_running, app_observers, callback_threads,
                   fallback_order, providers, ollama_up, use_simple_vscode_strategy,
                   use_computer_vision, browser_last_dialog_hash, ax_last_dialog_hash, prev>>

NextObserver == CheckForDialogs \/ Return

SpecObserver == InitObserver /\ [][NextObserver]_vars

\* the cycle c emitted an event and the callback called DecisionEngine.decide on it
ReachedDecide(c) == c.out.emitted /\ c.out.out[1].res # <<>>

\* two successive cycles found the same application showing the same elements
UnchangedOnScreen ==
    /\ prev # Idle /\ prev.op = "check_for_dialogs"
    /\ last # Idle /\ last.op = "check_for_dialogs"
    /\ prev.app_name = last.app_name /\ prev.elements = last.elements

\* C11 as stated: a dialog that is unchanged on screen in the cycle after the one in
\* which the pipeline processed it (same application, same text, same options, hence the
\* same key) is dropped before it reaches DecisionEngine.decide.
C11_Original ==
    (UnchangedOnScreen /\ ReachedDecide(prev)) => ~ReachedDecide(last)

(***************************************************************************)
(* SpecRules: the rule-based default, called directly and reached through  *)
(* decide when no strategy and no backend decides.                         *)
(***************************************************************************)
MaxOptions == 3

\* button labels; "Ignore" and "No" contain the cancel-like keyword "no", "Don't Save"
\* contains the prefer-safe keyword "save"
RuleLabels == {"Save", "Don't Save", "Cancel", "No", "Retry", "Ignore"}

RuleOptionLists == SeqsUpTo(RuleLabels, MaxOptions)

\* applications without a strategy for the question asked; Finder is in
\* require_confirmation_for, Preview is not
RuleApps == {"Preview", "Finder"}

RuleContexts ==
    {DialogContextOf(Dialog(app, "Export the document?", opts)) :
        app \in RuleApps, opts \in RuleOptionLists}

\* every registered backend fails, or every registered backend gives the same answer
RuleOracles(order, provs) ==
    {o \in PipelineOracles(order, provs) : \A i \in 1..Len(order) : o[i].text \in {"", "no idea"}}

\* state after the module-level LLMFallbackManager() and DecisionEngine.__init__
InitRules ==
    /\ fallback_order = DefaultFallbackOrder
    /\ ollama_up \in BOOLEAN
    /\ providers = InitializeProviders(ollama_up, {})
    /\ use_simple_vscode_strategy = TRUE
    /\ use_computer_vision = FALSE
    /\ actions_performed_today = 0
    /\ browser_last_dialog_hash = None
    /\ ax_last_dialog_hash = None
    /\ last = Idle
    /\ EventObserverInit
    /\ prev = Idle

\* DecisionEngine._rule_based_decision(context)
CallRuleBasedDecision ==
    /\ last = Idle
    /\ \E ctx \in RuleContexts :
          last' = [op |-> "rule_based_decision", ctx |-> ctx, out |-> RuleBasedDecision(ctx)]
    /\ UNCHANGED <<thread_vars, is_running, app_observers, callback_threads,
                   fallback_order, providers, ollama_up, use_simple_vscode_strategy,
                   use_computer_vision, actions_performed_today, browser_last_dialog_hash,
                   ax_last_dialog_hash, prev>>

\* DecisionEngine.decide(context) on the same dialogs
CallDecideRules ==
    /\ last = Idle
    /\ \E ctx \in RuleContexts, oracle \in RuleOracles(fallback_order, providers) :
          last' = [op |-> "decide", ctx |-> ctx, oracle |-> oracle, gen |-> FailOutcome,
                   out |-> Decide(ctx, use_simple_vscode_strategy, providers,
                                  fallback_order, ollama_up, oracle, FailOutcome)]
    /\ UNCHANGED <<thread_vars, is_running, app_observers, callback_threads,
                   fallback_order, providers, ollama_up, use_simple_vscode_strategy,
                   use_computer_vision, actions_performed_today, browser_last_dialog_hash,
                   ax_last_dialog_hash, prev>>

NextRules == CallRuleBasedDecision \/ CallDecideRules \/ Return

SpecRules == InitRules /\ [][NextRules]_vars

\* the call of _rule_based_decision whose outcome the state shows, if any
RuleCalled == last.op = "rule_based_decision"

\* the option's lowercase text contains a prefer-safe / a cancel-like keyword
SaveLike(option) == \E k \in 1..Len(save_keywords) : Contains(ToLower(option), save_keywords[k])
CancelLike(option) == \E k \in 1..Len(cancel_keywords) : Contains(ToLower(option), cancel_keywords[k])

\* C13 as stated: the rule-based default produces no Decision when there are no options
\* and when every option contains a cancel-like keyword (and none a prefer-safe one).
C13_Original ==
    RuleCalled =>
        /\ last.ctx.options = <<>> => last.out.none
        /\ (/\ last.ctx.options # <<>>
            /\ \A i \in 1..Len(last.ctx.options) :
                  CancelLike(last.ctx.options[i]) /\ ~SaveLike(last.ctx.options[i]))
           => last.out.none

\* decide returned the Decision of the rule-based default's prefer-safe branch
RulePreferSafe ==
    /\ Decided /\ last.out.path = "rule"
    /\ last.out.decision.reasoning = "Rule-based: Prefer saving to avoid data loss"

\* C14 as stated: when the rule-based default chooses an option for its prefer-safe
\* keyword, the Decision decide returns has requires_confirmation = true.
C14_Original == RulePreferSafe => last.out.decision.requires_confirmation

\* positions of the options with a prefer-safe keyword / without a cancel-like keyword
SaveLikeAt(options) == {i \in 1..Len(options) : SaveLike(options[i])}
NonCancelAt(options) == {i \in 1..Len(options) : ~CancelLike(options[i])}

\* C15: _rule_based_decision chooses the first option (in options order) whose lowercase
\* text contains a prefer-safe keyword if there is one, and otherwise the first option
\* that contains no cancel-like keyword if there is one; for ["Save", "Don't Save",
\* "Cancel"] it chooses "Save".
C15_RuleChoice ==
    RuleCalled =>
        /\ SaveLikeAt(last.ctx.options) # {} =>
              /\ ~last.out.none
              /\ last.out.chosen_option = last.ctx.options[MinOf(SaveLikeAt(last.ctx.options))]
        /\ (SaveLikeAt(last.ctx.options) = {} /\ NonCancelAt(last.ctx.options) # {}) =>
              /\ ~last.out.none
              /\ last.out.chosen_option = last.ctx.options[MinOf(NonCancelAt(last.ctx.options))]
        /\ last.ctx.options = <<"Save", "Don't Save", "Cancel">> => last.out.chosen_option = "Save"

\* a prefer-safe option was chosen although an option without any keyword precedes it
C15_Witness ==
    /\ RuleCalled /\ ~last.out.none
    /\ \E i, j \in 1..Len(last.ctx.options) :
          /\ i < j
          /\ ~SaveLike(last.ctx.options[i]) /\ ~CancelLike(last.ctx.options[i])
          /\ SaveLike(last.ctx.options[j])
          /\ j = MinOf(SaveLikeAt(last.ctx.options))
          /\ last.out.chosen_option = last.ctx.options[j]
          /\ last.ctx.options[i] # last.ctx.options[j]

(***************************************************************************)
(* SpecParser: parse_structured_response called on backend responses.      *)
(***************************************************************************)
\* option labels are button titles, which the Context Builder keeps only when non-empty
ParseLabels == {"Save", "Cancel", "Don't Save"}

ParseOptionLists == SeqsUpTo(ParseLabels, MaxOptions)

\* how a response may start: a number with punctuation, with leading blanks, or nothing
ResponseHeads == {"1. ", "2. ", "3. ", "4. ", "5. ", "2) ", "  2. ", "0. ", ""}

\* what follows: nothing, another option's text, an "option X" phrase, a word of an
\* option, the texts of two options, or text without any relation to the options
ResponseRests ==
    {"", "Cancel is safer", "save\nbecause it keeps the data", "I choose option 2",
     "choice 9", "don't lose it", "cancel, do not save", "???"}

ParseResponses == {h \o r : h \in ResponseHeads, r \in ResponseRests}

\* the default 0.8 and a provider's own confidence
ParseConfidences == {80, 90}

InitParser ==
    /\ fallback_order = DefaultFallbackOrder
    /\ ollama_up = FALSE
    /\ providers = InitializeProviders(ollama_up, {})
    /\ use_simple_vscode_strategy = TRUE
    /\ use_computer_vision = FALSE
    /\ actions_performed_today = 0
    /\ browser_last_dialog_hash = None
    /\ ax_last_dialog_hash = None
    /\ last = Idle
    /\ EventObserverInit
    /\ prev = Idle

\* parse_structured_response(response, options, confidence)
CallParse ==
    /\ last = Idle
    /\ \E response \in ParseResponses, options \in ParseOptionLists, confidence \in ParseConfidences :
          last' = [op |-> "parse", response |-> response, options |-> options,
                   confidence |-> confidence,
                   out |-> ParseStructuredResponse(response, options, confidence)]
    /\ UNCHANGED <<thread_vars, is_running, app_observers, callback_threads,
                   fallback_order, providers, ollama_up, use_simple_vscode_strategy,
                   use_computer_vision, actions_performed_today, browser_last_dialog_hash,
                   ax_last_dialog_hash, prev>>

NextParser == CallParse \/ Return

SpecParser == InitParser /\ [][NextParser]_vars

\* the call of the parser whose outcome the state shows, if any
Parsed == last.op = "parse"

\* the decimal numeral of n, for 1 <= n <= 9
Numeral(n) == SubSeq(Digits, n + 1, n + 1)

\* the numbers N with 1 <= N <= len(options) such that the response begins with "N. "
LeadingNumbers(response, options) ==
    {n \in 1..Len(options) : n <= 9 /\ StartsWith(response, Numeral(n) \o ". ")}

\* C16: for every response that begins with "N. " where 1 <= N <= len(options),
\* parse_structured_response returns choice = options[N-1] (0-based), also when the rest
\* of the response contains the text of another option.
C16_NumberWins ==
    Parsed =>
        \A n \in LeadingNumbers(last.response, last.options) :
            /\ ~last.out.raised
            /\ last.out.choice = last.options[n]

\* the response begins with a valid number and goes on with the text of another option
C16_Witness ==
    /\ Parsed
    /\ \E n \in LeadingNumbers(last.response, last.options) :
          /\ last.out.choice = last.options[n]
          /\ \E k \in 1..Len(last.options) :
                /\ last.options[k] # last.options[n]
                /\ Contains(ToLower(last.response), ToLower(last.options[k]))

\* C17: for a non-empty options sequence parse_structured_response raises for no
\* response string, the empty string and unparseable text included, and returns a
\* result whose choice is a (non-empty) element of options.
C17_NeverRaises ==
    (Parsed /\ last.options # <<>>) =>
        /\ ~last.out.raised
        /\ last.out.choice # ""
        /\ InList(last.out.choice, last.options)

\* the empty response or unparseable text was parsed, with several options to choose from
C17_Witness ==
    /\ Parsed /\ Len(last.options) > 1
    /\ last.response \in {"", "???"}
    /\ ~last.out.raised
    /\ last.out.choice = last.options[1]

\* one of the four parsing strategies yields a choice for the stripped response
StrategyMatches(response, options) ==
    \/ ~NotChoice(ParseByNumber(response, options).choice)
    \/ ~NotChoice(ParseByName(response, options).choice)
    \/ ~NotChoice(ParseByOptionX(response, options).choice)
    \/ ~NotChoice(ParseByFuzzy(response, options).choice)

\* C18: when none of the four strategies matches, the result is the first option with
\* confidence 0.3; whenever one of them matches, the confidence of the result is the
\* confidence the caller passed.
C18_FallbackConfidence ==
    (Parsed /\ last.options # <<>>) =>
        IF StrategyMatches(Strip(last.response), last.options)
        THEN last.out.confidence = last.confidence
        ELSE last.out.choice = last.options[1] /\ last.out.confidence = FallbackConfidence

\* no strategy matched a response that is not empty, and the caller's confidence was
\* replaced
C18_Witness ==
    /\ Parsed /\ last.options # <<>>
    /\ last.response # ""
    /\ ~StrategyMatches(Strip(last.response), last.options)
    /\ last.out.confidence = FallbackConfidence /\ last.confidence # FallbackConfidence
    /\ last.out.choice = last.options[1]

(***************************************************************************)
(* SpecAnswers: the strategies that answer a question with free text,      *)
(* each asked directly for a dialog it reports it can handle.              *)
(* agents/vscode_strategies_enhanced.py: ClaudeQuestionStrategyWithSearch. *)
(***************************************************************************)
\* ClaudeQuestionStrategyWithSearch.can_handle (case-sensitive tests)
SearchCanHandle(ctx) ==
    /\ EndsWith(Strip(ctx.question), "?")
    /\ ~Contains(ctx.question, "Allow this bash command")
    /\ ~Contains(ctx.question, "Edit automatically")

\* _search_for_answer is a placeholder that returns None, so the answer comes from
\* _generate_answer: the backend's text, or a fixed sentence when the backend raises
SearchGenerateAnswer(g) ==
    IF g.raised THEN "I need more information to answer that question." ELSE g.text

\* ClaudeQuestionStrategyWithSearch.decide with the defaults use_search = search_first =
\* True and the Ollama backend
SearchDecide(ctx, up, gen) ==
    AIDecision(SearchGenerateAnswer(ProviderGenerate("ollama", up, gen)),
               "Answer generated using LLM only", 60, FALSE)

AnswerQuestions ==
    {"Which file should I use?", "What name do you prefer?", "Should I continue?",
     "How many retries?", "Tell me the path?", "Is this fine?"}

AnswerOptionLists == {<<>>, <<"Answer", "Skip">>, <<"Respond", "Cancel">>}

AnswerContexts ==
    {DialogContextOf(Dialog(VSCode, q, opts)) : q \in AnswerQuestions, opts \in AnswerOptionLists}

\* state after the module-level LLMFallbackManager() and the strategies' constructors
InitAnswers ==
    /\ fallback_order = DefaultFallbackOrder
    /\ ollama_up \in BOOLEAN
    /\ \E keys \in KeySets : providers = InitializeProviders(ollama_up, keys)
    /\ use_simple_vscode_strategy \in BOOLEAN
    /\ use_computer_vision = FALSE
    /\ actions_performed_today = 0
    /\ browser_last_dialog_hash = None
    /\ ax_last_dialog_hash = None
    /\ last = Idle
    /\ EventObserverInit
    /\ prev = Idle

\* ClaudeQuestionStrategy(llm_provider=first_provider).decide(context)
CallQuestionStrategy ==
    /\ last = Idle
    /\ \E ctx \in AnswerContexts, gen \in Outcomes :
          /\ QuestionCanHandle(ctx)
          /\ last' = [op |-> "question_strategy", ctx |-> ctx,
                      out |-> QuestionDecide(ctx, FirstProvider(providers), ollama_up, gen)]
    /\ UNCHANGED <<thread_vars, is_running, app_observers, callback_threads,
                   fallback_order, providers, ollama_up, use_simple_vscode_strategy,
                   use_computer_vision, actions_performed_today, browser_last_dialog_hash,
                   ax_last_dialog_hash, prev>>

\* SimpleAnswerStrategy(llm_provider=first_provider).decide(context)
CallSimpleAnswerStrategy ==
    /\ last = Idle
    /\ \E ctx \in AnswerContexts, gen \in Outcomes :
          /\ AnswerCanHandle(ctx)
          /\ last' = [op |-> "simple_answer_strategy", ctx |-> ctx,
                      out |-> AnswerDecide(ctx, FirstProvider(providers), ollama_up, gen)]
    /\ UNCHANGED <<thread_vars, is_running, app_observers, callback_threads,
                   fallback_order, providers, ollama_up, use_simple_vscode_strategy,
                   use_computer_vision, actions_performed_today, browser_last_dialog_hash,
                   ax_last_dialog_hash, prev>>

\* ClaudeQuestionStrategyWithSearch(llm_provider='ollama').decide(context)
CallQuestionWithSearch ==
    /\ last = Idle
    /\ \E ctx \in AnswerContexts, gen \in Outcomes :
          /\ SearchCanHandle(ctx)
          /\ last' = [op |-> "question_with_search", ctx |-> ctx,
                      out |-> SearchDecide(ctx, ollama_up, gen)]
    /\ UNCHANGED <<thread_vars, is_running, app_observers, callback_threads,
                   fallback_order, providers, ollama_up, use_simple_vscode_strategy,
                   use_computer_vision, actions_performed_today, browser_last_dialog_hash,
                   ax_last_dialog_hash, prev>>

NextAnswers ==
    CallQuestionStrategy \/ CallSimpleAnswerStrategy \/ CallQuestionWithSearch
        \/ OllamaServerChange \/ Return

SpecAnswers == InitAnswers /\ [][NextAnswers]_vars

\* a strategy answered the question with text that is not one of the dialog's options
FreeTextDecision ==
    /\ last.op \in {"question_strategy", "simple_answer_strategy", "question_with_search"}
    /\ ~last.out.none
    /\ ~InList(last.out.chosen_option, last.ctx.options)

\* C20 as stated: every Decision whose chosen_option is free text has
\* requires_confirmation = true, in every strategy that produces free-text answers.
C20_Original == FreeTextDecision => last.out.requires_confirmation

(***************************************************************************)
(* SpecEvents: the event-driven observer (settings.event_driven_mode), its *)
(* per-application AX observers and the callback threads it starts.        *)
(***************************************************************************)
MaxThreads == 2

\* applications that can be active or become active; Terminal is in blacklist_apps
EventApps == {"TextEdit", "Preview", "Terminal"}

\* no application is active when start asks the workspace
NoApp == "no app"

\* the windows an application can open
EventScreens == {scr \in Screens : scr.app_name \in EventApps}

\* EventDrivenObserver._setup_app_observer(app): nothing when the application already
\* has an observer or AXObserverCreate reports an error (created = FALSE), otherwise
\* the application is observed.  It does not ask is_app_allowed
SetupAppObserver(observers, app_name, created) ==
    IF app_name \in observers THEN observers
    ELSE IF ~created THEN observers
    ELSE observers \cup {app_name}

\* EventDrivenObserver._on_app_activation: a blacklisted application is ignored
OnAppActivationRun(observers, app_name, created) ==
    IF ~IsAppAllowed(app_name) THEN observers
    ELSE SetupAppObserver(observers, app_name, created)

\* EventDrivenObserver._on_window_event: the threads running after the event; a window
\* that is a dialog gets a new thread running the callback on its ObserverEvent.  It
\* asks neither is_app_allowed nor whether a thread for the window is running
OnWindowEventRun(threads, app_name, elements) ==
    IF elements # <<>> /\ ObserverIsDialog(elements)
    THEN Append(threads, [app_name |-> app_name, elements |-> elements])
    ELSE threads

\* state after SentryAI.__init__ in event-driven mode
InitEvents ==
    /\ fallback_order = DefaultFallbackOrder
    /\ ollama_up \in BOOLEAN
    /\ \E keys \in KeySets : providers = InitializeProviders(ollama_up, keys)
    /\ use_simple_vscode_strategy = FALSE
    /\ use_computer_vision = FALSE
    /\ actions_performed_today = 0
    /\ browser_last_dialog_hash = None
    /\ ax_last_dialog_hash = None
    /\ last = Idle
    /\ EventObserverInit
    /\ prev = Idle

\* EventDrivenObserver.start up to the event loop: the application active at that
\* moment, if any, is handed to _setup_app_observer
StartEvents ==
    /\ last = Idle /\ ~is_running
    /\ is_running' = TRUE
    /\ \E active \in EventApps \cup {NoApp}, created \in BOOLEAN :
          /\ app_observers' = IF active = NoApp THEN app_observers
                              ELSE SetupAppObserver(app_observers, active, created)
          /\ last' = [op |-> "start", active_app |-> active]
    /\ UNCHANGED <<thread_vars, callback_threads, fallback_order, providers, ollama_up,
                   use_simple_vscode_strategy, use_computer_vision, actions_performed_today,
                   browser_last_dialog_hash, ax_last_dialog_hash, prev>>

\* an NSWorkspaceDidActivateApplicationNotification handled by _on_app_activation
OnAppActivation ==
    /\ last = Idle /\ is_running
    /\ \E app_name \in EventApps, created \in BOOLEAN :
          /\ app_observers' = OnAppActivationRun(app_observers, app_name, created)
          /\ last' = [op |-> "on_app_activation", app_name |-> app_name]
    /\ UNCHANGED <<thread_vars, is_running, callback_threads, fallback_order, providers, ollama_up,
                   use_simple_vscode_strategy, use_computer_vision, actions_performed_today,
                   browser_last_dialog_hash, ax_last_dialog_hash, prev>>

\* a window-created or focused-window-changed notification of an observed application,
\* handled by ax_callback and _on_window_event on the run-loop thread
OnWindowEvent ==
    /\ last = Idle /\ is_running
    /\ Len(callback_threads) < MaxThreads
    /\ \E scr \in EventScreens :
          /\ scr.app_name \in app_observers
          /\ callback_threads' = OnWindowEventRun(callback_threads, scr.app_name, scr.elements)
          /\ last' = [op |-> "on_window_event", app_name |-> scr.app_name,
                      elements |-> scr.elements]
    /\ UNCHANGED <<thread_vars, is_running, app_observers, fallback_order, providers, ollama_up,
                   use_simple_vscode_strategy, use_computer_vision, actions_performed_today,
                   browser_last_dialog_hash, ax_last_dialog_hash, prev>>

\* a callback thread runs SentryAI.on_dialog_detected on its event and ends; the other
\* threads and the run-loop thread are not waited for
CallbackThread ==
    /\ actions_performed_today < MaxActions
    /\ \E i \in 1..Len(callback_threads) :
        \E oracle \in PipelineOracles(fallback_order, providers), exec_ok \in BOOLEAN :
          \E gen \in Gens(callback_threads[i].app_name, providers) :
            /\ actions_performed_today' = actions_performed_today +
                  OnDialogDetectedRun(callback_threads[i], use_computer_vision, FALSE,
                                      use_simple_vscode_strategy, providers, fallback_order,
                                      ollama_up, oracle, gen, exec_ok).inc
            /\ callback_threads' = [k \in 1..(Len(callback_threads) - 1) |->
                                       IF k < i THEN callback_threads[k]
                                       ELSE callback_threads[k + 1]]
    /\ UNCHANGED <<thread_vars, is_running, app_observers, fallback_order, providers, ollama_up,
                   use_simple_vscode_strategy, use_computer_vision,
                   browser_last_dialog_hash, ax_last_dialog_hash, last, prev>>

NextEvents == StartEvents \/ OnAppActivation \/ OnWindowEvent \/ CallbackThread \/ Return

SpecEvents == InitEvents /\ [][NextEvents]_vars

\* C22 as stated, for the event-driven observer: no dialog of a blacklisted application
\* ever reaches the dialog callback, whichever application was active at start.
C22_Original ==
    \A i \in 1..Len(callback_threads) : IsAppAllowed(callback_threads[i].app_name)

\* C30 as stated: two callback executions for the same window never overlap: no two
\* threads running the callback at the same time were started for the same window of
\* the same application.
C30_Original ==
    \A i, j \in 1..Len(callback_threads) :
        i # j => callback_threads[i] # callback_threads[j]

(***************************************************************************)
(* SpecAnalyzer: Analyzer.analyze on raw element lists, called directly    *)
(* and as step 1 of the pipeline callback.                                 *)
(***************************************************************************)
MaxElements == 3

\* the raw elements a window can hold: titled buttons, a button without title, texts of
\* several categories and a text element without value
AnalyzerElements ==
    { UIElement("AXButton", "Save", ""), UIElement("AXButton", "Allow", ""),
      UIElement("AXButton", "OK", ""), UIElement("AXButton", "", ""),
      UIElement("AXStaticText", "", "Update available"),
      UIElement("AXStaticText", "", "An error occurred"),
      UIElement("AXStaticText", "", "") }

\* element lists in traversal order; the same element may occur several times
AnalyzerWindows == SeqsUpTo(AnalyzerElements, MaxElements)

AnalyzerApp == "Preview"

\* state after SentryAI.__init__ with no backend registered
InitAnalyzer ==
    /\ fallback_order = DefaultFallbackOrder
    /\ ollama_up = FALSE
    /\ providers = InitializeProviders(FALSE, {})
    /\ use_simple_vscode_strategy = FALSE
    /\ use_computer_vision = FALSE
    /\ actions_performed_today = 0
    /\ browser_last_dialog_hash = None
    /\ ax_last_dialog_hash = None
    /\ last = Idle
    /\ EventObserverInit
    /\ prev = Idle

\* Analyzer.analyze(app_name, elements)
CallAnalyze ==
    /\ last = Idle
    /\ \E elements \in AnalyzerWindows :
          last' = [op |-> "analyze", elements |-> elements,
                   out |-> Analyze(AnalyzerApp, elements)]
    /\ UNCHANGED <<thread_vars, is_running, app_observers, callback_threads,
                   fallback_order, providers, ollama_up, use_simple_vscode_strategy,
                   use_computer_vision, actions_performed_today, browser_last_dialog_hash,
                   ax_last_dialog_hash, prev>>

\* SentryAI.on_dialog_detected on an event carrying a raw element list
OnDialogDetectedRaw ==
    /\ last = Idle
    /\ actions_performed_today < MaxActions
    /\ \E elements \in AnalyzerWindows, exec_ok \in BOOLEAN :
          /\ last' = [op |-> "on_dialog_detected", elements |-> elements,
                      out |-> OnDialogDetectedRun(
                                 [app_name |-> AnalyzerApp, elements |-> elements],
                                 use_computer_vision, FALSE, use_simple_vscode_strategy,
                                 providers, fallback_order, ollama_up, <<>>,
                                 FailOutcome, exec_ok)]
          /\ actions_performed_today' = actions_performed_today + last'.out.inc
    /\ UNCHANGED <<thread_vars, is_running, app_observers, callback_threads,
                   fallback_order, providers, ollama_up, use_simple_vscode_strategy,
                   use_computer_vision, browser_last_dialog_hash, ax_last_dialog_hash, prev>>

NextAnalyzer == CallAnalyze \/ OnDialogDetectedRaw \/ Return

SpecAnalyzer == InitAnalyzer /\ [][NextAnalyzer]_vars

\* the element list has a button with a non-empty title / an element with readable text
HasTitledButton(elements) ==
    \E i \in 1..Len(elements) : elements[i].role = "AXButton" /\ elements[i].title # ""
HasReadableText(elements) ==
    \E i \in 1..Len(elements) :
        elements[i].role \in {"AXStaticText", "AXTextField"} /\ elements[i].value # ""

\* the call or run in the state worked on an element list lacking a titled button or
\* readable text
Malformed ==
    /\ last.op \in {"analyze", "on_dialog_detected"}
    /\ ~HasTitledButton(last.elements) \/ ~HasReadableText(last.elements)

\* C23: for an element list without a titled button or without readable text,
\* Analyzer.analyze returns no description, and the pipeline run on it ends at the
\* analysis step without calling DecisionEngine.decide
C23_NoDescription ==
    Malformed =>
        /\ last.op = "analyze" => last.out.none
        /\ last.op = "on_dialog_detected" =>
              /\ last.out.stage = "no_context" /\ last.out.res = <<>>
              /\ ~last.out.executed

\* a pipeline run on a window with titled buttons and no readable text stopped at the
\* analysis step
C23_Witness ==
    /\ last.op = "on_dialog_detected"
    /\ HasTitledButton(last.elements) /\ ~HasReadableText(last.elements)
    /\ Len(last.elements) = MaxElements
    /\ last.out.stage = "no_context"

\* analyze returned a description
Analyzed == last.op = "analyze" /\ ~last.out.none

\* C24 as stated: the options of every description the Analyzer builds contain no
\* duplicate strings.
C24_Original ==
    Analyzed =>
        \A i, j \in 1..Len(last.out.options) :
            i # j => last.out.options[i] # last.out.options[j]

\* the categories in the priority order save > update > permission > error
CategoryPriority ==
    <<"save_confirmation", "update_prompt", "permission_request", "error_dialog">>

\* the keywords configured for a category
KeywordsOf(category) ==
    dialog_keywords[CHOOSE k \in 1..Len(dialog_keywords) : dialog_keywords[k][1] = category][2]

\* the lowercase text of the description: the question and the options, space-separated
LoweredText(d) == ToLower(Join(<<d.question>> \o d.options, " "))

\* some keyword of the category occurs, lowercased, in the text
CategoryMatches(category, text) ==
    \E j \in 1..Len(KeywordsOf(category)) : Contains(text, ToLower(KeywordsOf(category)[j]))

\* C25: the description's dialog_type is the first category, in the order save > update
\* > permission > error, one of whose keywords occurs in the lowercase question and
\* options; it is generic when no category has one
C25_FirstCategoryWins ==
    Analyzed =>
        /\ \A k \in 1..Len(CategoryPriority) :
              (/\ CategoryMatches(CategoryPriority[k], LoweredText(last.out))
               /\ \A h \in 1..(k - 1) : ~CategoryMatches(CategoryPriority[h], LoweredText(last.out)))
              => last.out.dialog_type = CategoryPriority[k]
        /\ (\A k \in 1..Len(CategoryPriority) :
               ~CategoryMatches(CategoryPriority[k], LoweredText(last.out)))
              => last.out.dialog_type = "generic"

\* a description matching keywords of the update, permission and error categories and
\* none of the save category was classified update_prompt
C25_Witness ==
    /\ Analyzed
    /\ ~CategoryMatches("save_confirmation", LoweredText(last.out))
    /\ CategoryMatches("update_prompt", LoweredText(last.out))
    /\ CategoryMatches("permission_request", LoweredText(last.out))
    /\ CategoryMatches("error_dialog", LoweredText(last.out))
    /\ last.out.dialog_type = "update_prompt"

(***************************************************************************)
(* SpecRace: detect_claude_dialog called from several threads on one       *)
(* observer.  A call is split where it reads and where it writes           *)
(* self.last_dialog_hash; nothing in the method holds a lock between them. *)
(***************************************************************************)
MaxCycles == 2

RacePages ==
    { "Claude Code\nAllow this bash command?\n\n$ ls -la\nYes  No",
      "Changes pending\nEdit automatically\nYes No",
      "Welcome to the editor" }

RaceWindowLists ==
    { <<Window("Claude", <<"Allow this bash command?", "$ ls -la">>, <<"Yes", "No">>)>>,
      <<Window("main.py", <<"def f(): pass">>, <<>>),
        Window("", <<"Edit automatically?">>, <<"Yes", "No">>)>> }

\* the dialogs a call examines, in order: the parsed page of the browser observer, the
\* windows of the accessibility observer that are assistant dialogs
BrowserCandidates(page) ==
    IF ParseClaudeDialog(page).none THEN <<>> ELSE <<ParseClaudeDialog(page)>>
AxCandidates(windows) ==
    SelectSeq([i \in 1..Len(windows) |-> AnalyzeWindow(windows[i])], LAMBDA d : ~d.none)

\* a call in progress: the observer, the dialogs it examines, the one it is at, where
\* it stands (compare, store, done) and what it returns
DetectCycle(observer, dialogs) ==
    [observer |-> observer, dialogs |-> dialogs, i |-> 1,
     pc |-> IF dialogs = <<>> THEN "done" ELSE "compare", out |-> NoContext]

CycleKey(c) ==
    IF c.observer = "browser" THEN BrowserHashDialog(c.dialogs[c.i]) ELSE AxHashDialog(c.dialogs[c.i])

\* `dialog_hash == self.last_dialog_hash`: the browser observer returns None on a match,
\* the accessibility observer goes on to the next window
DetectCompareRun(c, last_hash) ==
    IF CycleKey(c) # last_hash THEN [c EXCEPT !.pc = "store"]
    ELSE IF c.observer = "ax" /\ c.i < Len(c.dialogs) THEN [c EXCEPT !.i = c.i + 1]
    ELSE [c EXCEPT !.pc = "done"]

\* state after the construction of the two observers
InitRace ==
    /\ fallback_order = DefaultFallbackOrder
    /\ ollama_up = FALSE
    /\ providers = InitializeProviders(FALSE, {})
    /\ use_simple_vscode_strategy = TRUE
    /\ use_computer_vision = FALSE
    /\ actions_performed_today = 0
    /\ browser_last_dialog_hash = None
    /\ ax_last_dialog_hash = None
    /\ last = Idle
    /\ EventObserverInit
    /\ prev = Idle

\* a thread enters detect_claude_dialog: up to the computation of the first key
DetectBegin ==
    /\ Len(detect_cycles) < MaxCycles
    /\ \/ \E page \in RacePages :
            detect_cycles' = Append(detect_cycles, DetectCycle("browser", BrowserCandidates(page)))
       \/ \E windows \in RaceWindowLists :
            detect_cycles' = Append(detect_cycles, DetectCycle("ax", AxCandidates(windows)))
    /\ UNCHANGED <<is_running, app_observers, callback_threads, vision_thread, successes,
                   watch_windows, watch_returned, fallback_order, providers, ollama_up,
                   use_simple_vscode_strategy, use_computer_vision, actions_performed_today,
                   browser_last_dialog_hash, ax_last_dialog_hash, last, prev>>

\* the call reads self.last_dialog_hash and compares
DetectCompare ==
    /\ \E t \in 1..Len(detect_cycles) :
          /\ detect_cycles[t].pc = "compare"
          /\ detect_cycles' =
                [detect_cycles EXCEPT ![t] =
                    DetectCompareRun(detect_cycles[t],
                                     IF detect_cycles[t].observer = "browser"
                                     THEN browser_last_dialog_hash ELSE ax_last_dialog_hash)]
    /\ UNCHANGED <<is_running, app_observers, callback_threads, vision_thread, successes,
                   watch_windows, watch_returned, fallback_order, providers, ollama_up,
                   use_simple_vscode_strategy, use_computer_vision, actions_performed_today,
                   browser_last_dialog_hash, ax_last_dialog_hash, last, prev>>

\* the call writes self.last_dialog_hash and returns the dialog
DetectStore ==
    /\ \E t \in 1..Len(detect_cycles) :
          /\ detect_cycles[t].pc = "store"
          /\ detect_cycles' =
                [detect_cycles EXCEPT ![t].pc = "done",
                                      ![t].out = detect_cycles[t].dialogs[detect_cycles[t].i]]
          /\ IF detect_cycles[t].observer = "browser"
             THEN /\ browser_last_dialog_hash' = CycleKey(detect_cycles[t])
                  /\ UNCHANGED ax_last_dialog_hash
             ELSE /\ ax_last_dialog_hash' = CycleKey(detect_cycles[t])
                  /\ UNCHANGED browser_last_dialog_hash
    /\ UNCHANGED <<is_running, app_observers, callback_threads, vision_thread, successes,
                   watch_windows, watch_returned, fallback_order, providers, ollama_up,
                   use_simple_vscode_strategy, use_computer_vision, actions_performed_today,
                   last, prev>>

\* the calls have returned to their callers
DetectReturn ==
    /\ detect_cycles # <<>>
    /\ \A t \in 1..Len(detect_cycles) : detect_cycles[t].pc = "done"
    /\ detect_cycles' = <<>>
    /\ UNCHANGED <<is_running, app_observers, callback_threads, vision_thread, successes,
                   watch_windows, watch_returned, fallback_order, providers, ollama_up,
                   use_simple_vscode_strategy, use_computer_vision, actions_performed_today,
                   browser_last_dialog_hash, ax_last_dialog_hash, last, prev>>

NextRace == DetectBegin \/ DetectCompare \/ DetectStore \/ DetectReturn

SpecRace == InitRace /\ [][NextRace]_vars

\* C31 as stated: when two detection cycles submit the same dialog concurrently to one
\* observer, the compare-then-store is atomic, so they are never both accepted.
C31_Original ==
    \A t, u \in 1..Len(detect_cycles) :
        (/\ t # u
         /\ detect_cycles[t].observer = detect_cycles[u].observer
         /\ detect_cycles[t].pc = "done" /\ detect_cycles[u].pc = "done"
         /\ ~detect_cycles[t].out.none)
        => detect_cycles[u].out # detect_cycles[t].out

(***************************************************************************)
(* SpecCounter: the threads that update                                    *)
(* _system_state["actions_performed_today"]: the callback threads of the   *)
(* event-driven observer and the vision monitor thread.  The statement     *)
(* `+= 1` is a read of the entry followed by a write of the sum.           *)
(***************************************************************************)
\* the dialogs whose window events start callback threads
CounterScreens ==
    { EventOf(Dialog("TextEdit", "Do you want to save the changes?", <<"Save", "Don't Save", "Cancel">>)),
      EventOf(Dialog("Mail", "Send now?", <<"Send", "Cancel">>)),
      EventOf(Dialog(VSCode, "Edit automatically?", YesNo)) }

\* a thread running the callback on an event: about to run it, or inside the increment
CallbackThreadOn(ev) == [app_name |-> ev.app_name, elements |-> ev.elements, pc |-> "run", loaded |-> 0]

\* the sequence without its element t
RemoveAt(seq, t) == [k \in 1..(Len(seq) - 1) |-> IF k < t THEN seq[k] ELSE seq[k + 1]]

\* state after SentryAI.__init__ with the Computer Use Agent available
InitCounter ==
    /\ fallback_order = DefaultFallbackOrder
    /\ ollama_up = FALSE
    /\ providers = InitializeProviders(FALSE, {})
    /\ use_simple_vscode_strategy = TRUE
    /\ use_computer_vision = TRUE
    /\ actions_performed_today = 0
    /\ browser_last_dialog_hash = None
    /\ ax_last_dialog_hash = None
    /\ last = Idle
    /\ EventObserverInit
    /\ prev = Idle

\* SentryAI._start_with_vision_monitoring: the vision monitor thread is started, then
\* the observer
StartWithVisionMonitoring ==
    /\ ~is_running
    /\ is_running' = TRUE
    /\ vision_thread' = [pc |-> "loop", loaded |-> 0]
    /\ UNCHANGED <<app_observers, callback_threads, detect_cycles, successes, watch_windows,
                   watch_returned, fallback_order, providers, ollama_up,
                   use_simple_vscode_strategy, use_computer_vision, actions_performed_today,
                   browser_last_dialog_hash, ax_last_dialog_hash, last, prev>>

\* EventDrivenObserver._on_window_event on a dialog: a thread is started for the callback
WindowEventThread ==
    /\ is_running
    /\ Len(callback_threads) < MaxThreads
    /\ \E ev \in CounterScreens :
          callback_threads' = Append(callback_threads, CallbackThreadOn(ev))
    /\ UNCHANGED <<is_running, app_observers, detect_cycles, vision_thread, successes,
                   watch_windows, watch_returned, fallback_order, providers, ollama_up,
                   use_simple_vscode_strategy, use_computer_vision, actions_performed_today,
                   browser_last_dialog_hash, ax_last_dialog_hash, last, prev>>

\* a callback thread runs on_dialog_detected up to the increment: when the run counts an
\* action the thread goes on to the increment, otherwise it ends
CallbackExecute ==
    /\ successes < MaxActions
    /\ \E t \in 1..Len(callback_threads), exec_ok \in BOOLEAN, vision_handled \in BOOLEAN :
          /\ callback_threads[t].pc = "run"
          /\ IF OnDialogDetectedRun(callback_threads[t], use_computer_vision, vision_handled,
                                    use_simple_vscode_strategy, providers, fallback_order,
                                    ollama_up, <<>>, FailOutcome, exec_ok).inc = 1
             THEN /\ callback_threads' = [callback_threads EXCEPT ![t].pc = "load"]
                  /\ successes' = successes + 1
             ELSE /\ callback_threads' = RemoveAt(callback_threads, t)
                  /\ UNCHANGED successes
    /\ UNCHANGED <<is_running, app_observers, detect_cycles, vision_thread, watch_windows,
                   watch_returned, fallback_order, providers, ollama_up,
                   use_simple_vscode_strategy, use_computer_vision, actions_performed_today,
                   browser_last_dialog_hash, ax_last_dialog_hash, last, prev>>

\* `_system_state["actions_performed_today"] += 1` in a callback thread: the read
CallbackLoad ==
    /\ \E t \in 1..Len(callback_threads) :
          /\ callback_threads[t].pc = "load"
          /\ callback_threads' = [callback_threads EXCEPT ![t].pc = "store",
                                                          ![t].loaded = actions_performed_today]
    /\ UNCHANGED <<is_running, app_observers, detect_cycles, vision_thread, successes,
                   watch_windows, watch_returned, fallback_order, providers, ollama_up,
                   use_simple_vscode_strategy, use_computer_vision, actions_performed_today,
                   browser_last_dialog_hash, ax_last_dialog_hash, last, prev>>

\* the write of the sum; the thread ends
CallbackStore ==
    /\ \E t \in 1..Len(callback_threads) :
          /\ callback_threads[t].pc = "store"
          /\ actions_performed_today' = callback_threads[t].loaded + 1
          /\ callback_threads' = RemoveAt(callback_threads, t)
    /\ UNCHANGED <<is_running, app_observers, detect_cycles, vision_thread, successes,
                   watch_windows, watch_returned, fallback_order, providers, ollama_up,
                   use_simple_vscode_strategy, use_computer_vision,
                   browser_last_dialog_hash, ax_last_dialog_hash, last, prev>>

\* one pass of vision_monitor_loop with VS Code active in which
\* handle_dialog_with_vision automates a dialog, up to the increment
VisionHandle ==
    /\ vision_thread.pc = "loop"
    /\ successes < MaxActions
    /\ vision_thread' = [vision_thread EXCEPT !.pc = "load"]
    /\ successes' = successes + 1
    /\ UNCHANGED <<is_running, app_observers, callback_threads, detect_cycles, watch_windows,
                   watch_returned, fallback_order, providers, ollama_up,
                   use_simple_vscode_strategy, use_computer_vision, actions_performed_today,
                   browser_last_dialog_hash, ax_last_dialog_hash, last, prev>>

\* the increment in handle_dialog_with_vision: the read
VisionLoad ==
    /\ vision_thread.pc = "load"
    /\ vision_thread' = [pc |-> "store", loaded |-> actions_performed_today]
    /\ UNCHANGED <<is_running, app_observers, callback_threads, detect_cycles, successes,
                   watch_windows, watch_returned, fallback_order, providers, ollama_up,
                   use_simple_vscode_strategy, use_computer_vision, actions_performed_today,
                   browser_last_dialog_hash, ax_last_dialog_hash, last, prev>>

\* the write of the sum; the loop sleeps and goes round
VisionStore ==
    /\ vision_thread.pc = "store"
    /\ actions_performed_today' = vision_thread.loaded + 1
    /\ vision_thread' = [pc |-> "loop", loaded |-> 0]
    /\ UNCHANGED <<is_running, app_observers, callback_threads, detect_cycles, successes,
                   watch_windows, watch_returned, fallback_order, providers, ollama_up,
                   use_simple_vscode_strategy, use_computer_vision,
                   browser_last_dialog_hash, ax_last_dialog_hash, last, prev>>

NextCounter ==
    \/ StartWithVisionMonitoring \/ WindowEventThread \/ CallbackExecute \/ CallbackLoad
    \/ CallbackStore \/ VisionHandle \/ VisionLoad \/ VisionStore

SpecCounter == InitCounter /\ [][NextCounter]_vars

\* no thread is inside the increment
NoIncrementPending ==
    /\ vision_thread.pc \notin {"load", "store"}
    /\ \A t \in 1..Len(callback_threads) : callback_threads[t].pc \notin {"load", "store"}

\* C32 as stated: whenever no thread is inside the increment, actions_performed_today
\* equals the number of successfully executed automated actions since start.
C32_Original == NoIncrementPending => actions_performed_today = successes

(***************************************************************************)
(* SpecWatch: VSCodeObserver.watch polling a screen that changes now and   *)
(* then; the dialogs handed to the callback are recorded for as long as    *)
(* they stay on screen.                                                    *)
(***************************************************************************)
MaxReturned == 3

\* state after the construction of the observer, before VS Code shows a window
InitWatch ==
    /\ fallback_order = DefaultFallbackOrder
    /\ ollama_up = FALSE
    /\ providers = InitializeProviders(FALSE, {})
    /\ use_simple_vscode_strategy = TRUE
    /\ use_computer_vision = FALSE
    /\ actions_performed_today = 0
    /\ browser_last_dialog_hash = None
    /\ ax_last_dialog_hash = None
    /\ last = Idle
    /\ EventObserverInit
    /\ prev = Idle

\* the dialogs of the record that the windows still show
StillShown(returned, windows) ==
    SelectSeq(returned, LAMBDA d : \E i \in 1..Len(windows) : AnalyzeWindow(windows[i]) = d)

\* VS Code opens or closes windows: from now on the screen shows other windows; the
\* record keeps the dialogs that stay
ScreenChange ==
    /\ \E windows \in WindowLists :
          /\ windows # watch_windows
          /\ watch_windows' = windows
          /\ watch_returned' = StillShown(watch_returned, windows)
    /\ UNCHANGED <<is_running, app_observers, callback_threads, detect_cycles, vision_thread,
                   successes, fallback_order, providers, ollama_up, use_simple_vscode_strategy,
                   use_computer_vision, actions_performed_today, browser_last_dialog_hash,
                   ax_last_dialog_hash, last, prev>>

\* one pass of the loop of watch: detect_claude_dialog, then the callback on what it
\* returned
WatchCycle ==
    /\ Len(watch_returned) < MaxReturned
    /\ \E running \in BOOLEAN :
          /\ ax_last_dialog_hash' = AxDetectRun(running, watch_windows, ax_last_dialog_hash).hash
          /\ watch_returned' =
                IF AxDetectRun(running, watch_windows, ax_last_dialog_hash).out.none
                THEN watch_returned
                ELSE Append(watch_returned,
                            AxDetectRun(running, watch_windows, ax_last_dialog_hash).out)
    /\ UNCHANGED <<is_running, app_observers, callback_threads, detect_cycles, vision_thread,
                   successes, watch_windows, fallback_order, providers, ollama_up,
                   use_simple_vscode_strategy, use_computer_vision, actions_performed_today,
                   browser_last_dialog_hash, last, prev>>

NextWatch == ScreenChange \/ WatchCycle

SpecWatch == InitWatch /\ [][NextWatch]_vars

\* C33 as stated: detect_claude_dialog returns a dialog at most once while it stays on
\* screen, also when a second window shows a different dialog at the same time.
C33_Original ==
    \A i, j \in 1..Len(watch_returned) : i # j => watch_returned[i] # watch_returned[j]

(***************************************************************************)
(* Further properties of Spec, SpecParser and SpecPipeline.                *)
(***************************************************************************)
\* the options that approve a command
Approving(option) == option \in {"Yes", "Yes, and don't ask again", "Allow"}

\* decide was asked about a VS Code command-approval dialog whose command, the text
\* after the `$` marker, contains a dangerous keyword
DangerousCommandDialog ==
    /\ Decided /\ IsVSCodeApp(last.ctx.app_name)
    /\ BashCanHandle(last.ctx)
    /\ HasMarker(last.ctx.question)
    /\ HasKeyword(MarkedCommand(last.ctx.question), dangerous_patterns)

\* C34 as stated: for a VS Code command-approval dialog whose command contains a
\* dangerous keyword, decide never returns an approving option with
\* requires_confirmation = false.
C34_Original ==
    DangerousCommandDialog =>
        ~(/\ ~last.out.decision.none
          /\ Approving(last.out.decision.chosen_option)
          /\ ~last.out.decision.requires_confirmation)

\* some backend returned a result to the coordinator call of the resolution
BackendAnswered(res) ==
    /\ res.fb # <<>>
    /\ \E i \in 1..Len(res.fb[1].trace) : res.fb[1].trace[i].what = "ok"

\* C35: decide takes the paths in the order strategies, backends, rule-based default:
\* the coordinator is called exactly when no strategy decided and is_any_available
\* holds; a backend's answer is returned only then; and the rule-based default is
\* applied only when no strategy decided and no backend answered
C35_PathOrder ==
    Decided =>
        /\ last.out.fb # <<>> <=>
              (~StrategyDecides(last.ctx, last.gen) /\ IsAnyAvailable(providers))
        /\ StrategyDecides(last.ctx, last.gen) => last.out.path \in {"vscode", "app"}
        /\ last.out.path = "ai" <=>
              (~StrategyDecides(last.ctx, last.gen) /\ BackendAnswered(last.out))
        /\ last.out.path = "rule" =>
              (~StrategyDecides(last.ctx, last.gen) /\ ~BackendAnswered(last.out))

\* no strategy decided, the first backend tried failed, a later one answered, and its
\* answer was returned although the rule-based default had a Decision too
C35_Witness ==
    /\ Decided /\ ~StrategyDecides(last.ctx, last.gen)
    /\ last.out.path = "ai"
    /\ \E i \in 1..Len(last.out.fb[1].trace) : last.out.fb[1].trace[i].what = "fail"
    /\ ~RuleBasedDecision(last.ctx).none

\* strategy 1 yields no choice: the first line does not begin with a number of an option
NoValidLeadingInteger(response, options) ==
    NotChoice(ParseByNumber(Strip(response), options).choice)

\* the positions of the options whose lowercase text occurs in the lowercase response
OptionsNamed(response, options) ==
    {i \in 1..Len(options) : Contains(ToLower(Strip(response)), ToLower(options[i]))}

\* C36: when the response has no valid leading integer but contains the text of some
\* option (case-insensitively), parse_structured_response chooses an option whose full
\* text occurs in the response: the first such option in the order of the options list.
C36_FirstNamedOption ==
    (Parsed /\ NoValidLeadingInteger(last.response, last.options)
            /\ OptionsNamed(last.response, last.options) # {}) =>
        /\ ~last.out.raised
        /\ last.out.path = "name"
        /\ last.out.choice = last.options[MinOf(OptionsNamed(last.response, last.options))]
        /\ Contains(ToLower(last.response), ToLower(last.out.choice))

\* two options are named in a response without a valid number, and the one chosen comes
\* first in the options list although the other one comes first in the response
C36_Witness ==
    /\ Parsed /\ NoValidLeadingInteger(last.response, last.options)
    /\ last.options = <<"Save", "Cancel">>
    /\ OptionsNamed(last.response, last.options) = {1, 2}
    /\ StartsWith(ToLower(Strip(last.response)), "cancel")
    /\ last.out.choice = "Save"

\* C37: on every parsing path (leading number, option name, "option X", word overlap,
\* fallback to the first option) the choice parse_structured_response returns for a
\* non-empty options list is an element of that list.
C37_ChoiceInOptions ==
    (Parsed /\ last.options # <<>>) =>
        /\ last.out.path \in {"number", "name", "optionx", "fuzzy", "fallback"}
        /\ \E i \in 1..Len(last.options) : last.out.choice = last.options[i]

\* a choice made by name from a response written in another letter case than the option
C37_Witness ==
    /\ Parsed /\ last.out.path = "name"
    /\ ~Contains(Strip(last.response), last.out.choice)
    /\ \E i \in 1..Len(last.options) : last.out.choice = last.options[i]

\* C38: every Decision that decide returns, on each resolution path (VS Code strategy,
\* per-application strategy, backend, rule), has a confidence between 0.0 and 1.0 and a
\* rationale that is not empty.
C38_ConfidenceAndRationale ==
    (Decided /\ ~last.out.raised /\ ~last.out.decision.none) =>
        /\ last.out.path \in {"vscode", "app", "ai", "rule"}
        /\ 0 <= last.out.decision.confidence /\ last.out.decision.confidence <= 100
        /\ last.out.decision.reasoning # ""

\* a backend named an option without giving a reason, and the Decision carries the
\* parser's stand-in rationale
C38_Witness ==
    /\ Decided /\ last.out.path = "ai" /\ ~last.out.decision.none
    /\ last.out.decision.reasoning = "No explicit reasoning provided"
    /\ last.out.decision.confidence \in {80, 90, 95}

(***************************************************************************)
(* SpecSimple: SimpleVSCodeStrategy.decide called on VS Code dialogs with  *)
(* every list of buttons up to MaxOptions.                                 *)
(***************************************************************************)
\* button titles of approval dialogs: one per keyword, titles that contain a keyword
\* inside a longer text, and titles without any keyword
SimpleLabels == {"Yes", "No", "Allow", "Don't Allow", "Continue", "OK", "Approve", "Cancel"}

SimpleOptionLists == SeqsUpTo(SimpleLabels, MaxOptions)

InitSimple ==
    /\ fallback_order = DefaultFallbackOrder
    /\ ollama_up = FALSE
    /\ providers = InitializeProviders(ollama_up, {})
    /\ use_simple_vscode_strategy = TRUE
    /\ use_computer_vision = FALSE
    /\ actions_performed_today = 0
    /\ browser_last_dialog_hash = None
    /\ ax_last_dialog_hash = None
    /\ last = Idle
    /\ EventObserverInit
    /\ prev = Idle

\* SimpleVSCodeStrategy.decide(context)
CallSimpleDecide ==
    /\ last = Idle
    /\ \E options \in SimpleOptionLists :
          LET ctx == DialogContextOf(Dialog(VSCode, "Do you want to proceed?", options))
          IN  last' = [op |-> "simple_decide", ctx |-> ctx, out |-> SimpleDecide(ctx)]
    /\ UNCHANGED <<thread_vars, is_running, app_observers, callback_threads,
                   fallback_order, providers, ollama_up, use_simple_vscode_strategy,
                   use_computer_vision, actions_performed_today, browser_last_dialog_hash,
                   ax_last_dialog_hash, prev>>

NextSimple == CallSimpleDecide \/ Return

SpecSimple == InitSimple /\ [][NextSimple]_vars

\* the positions of the options that contain the k-th keyword, case-insensitively
WithKeyword(options, k) ==
    {i \in 1..Len(options) : Contains(ToLower(options[i]), priority_choices[k])}

\* the keywords (by rank: yes 1, allow 2, continue 3, ok 4, approve 5) some option contains
KeywordsPresent(options) ==
    {k \in 1..Len(priority_choices) : WithKeyword(options, k) # {}}

TrySteps == <<"analyze", "decide", "find_button", "execute", "log_action">>

\* which call raises in a run, if it is reached; "none": no call raises
Faults == {"none"} \cup {TrySteps[i] : i \in 1..Len(TrySteps)}

\* the calls a run makes when none of them raises, by the stage at which it returns
RunSteps(stage) ==
    CASE stage = "vision" -> <<>>
      [] stage = "no_context" -> SubSeq(TrySteps, 1, 1)
      [] stage \in {"no_decision", "confirmation_required", "error"} -> SubSeq(TrySteps, 1, 2)
      [] stage = "no_button" -> SubSeq(TrySteps, 1, 3)
      [] stage = "executed" -> TrySteps

\* the run with the call at position at raising: the calls after it are not made
RunRaisedAt(steps, at, escaped) ==
    [stage |-> "error", steps |-> SubSeq(steps, 1, at), raised |-> TRUE, escaped |-> escaped,
     executed |-> InList("execute", SubSeq(steps, 1, at)), inc |-> 0]

\* mutant: the callback has no except clause and the exception leaves it
OnDialogDetectedTryNoExcept(base, fault) ==
    LET steps == RunSteps(base.stage)
        at == {i \in 1..Len(steps) : steps[i] = fault}
    IN  IF at = {}
        THEN [stage |-> base.stage, steps |-> steps, raised |-> base.stage = "error",
              escaped |-> base.stage = "error", executed |-> base.executed, inc |-> base.inc]
        ELSE RunRaisedAt(steps, MinOf(at), TRUE)

\* on_dialog_detected with its try/except: base is the run when no call raises, fault the
\* call that raises.  `except Exception` logs the error and the callback returns.
OnDialogDetectedTry(base, fault) ==
    LET steps == RunSteps(base.stage)
        at == {i \in 1..Len(steps) : steps[i] = fault}
    IN  IF at = {}
        THEN [stage |-> base.stage, steps |-> steps, raised |-> base.stage = "error",
              escaped |-> FALSE, executed |-> base.executed, inc |-> base.inc]
        ELSE RunRaisedAt(steps, MinOf(at), FALSE)

\* what the active application shows in a cycle: a dialog an application strategy
\* decides, one the rule-based default decides, one of a blacklisted application and a
\* window without text
FaultScreens ==
    { EventOf(Dialog("TextEdit", "Do you want to save the changes?", <<"Save", "Don't Save", "Cancel">>)),
      EventOf(Dialog("Preview", "Export failed. Retry?", <<"Retry", "Cancel">>)),
      EventOf(Dialog("Terminal", "Close this window?", <<"Close", "Cancel">>)),
      [app_name |-> "Preview",
       elements |-> <<UIElement("AXButton", "OK", ""), UIElement("AXButton", "Cancel", ""),
                      UIElement("AXStaticText", "", "")>>] }

\* state after SentryAI.__init__ in polling mode, without any backend
InitFaults ==
    /\ fallback_order = DefaultFallbackOrder
    /\ ollama_up = FALSE
    /\ providers = InitializeProviders(ollama_up, {})
    /\ use_simple_vscode_strategy = TRUE
    /\ use_computer_vision = FALSE
    /\ actions_performed_today = 0
    /\ browser_last_dialog_hash = None
    /\ ax_last_dialog_hash = None
    /\ last = Idle
    /\ EventObserverInit
    /\ prev = Idle

\* Observer.start up to the loop
ObserverStart ==
    /\ last = Idle /\ ~is_running
    /\ is_running' = TRUE
    /\ UNCHANGED <<thread_vars, app_observers, callback_threads, fallback_order, providers,
                   ollama_up, use_simple_vscode_strategy, use_computer_vision,
                   actions_performed_today, browser_last_dialog_hash, ax_last_dialog_hash,
                   last, prev>>

\* the user's KeyboardInterrupt in the loop: Observer.stop
ObserverStop ==
    /\ last = Idle /\ is_running
    /\ is_running' = FALSE
    /\ UNCHANGED <<thread_vars, app_observers, callback_threads, fallback_order, providers,
                   ollama_up, use_simple_vscode_strategy, use_computer_vision,
                   actions_performed_today, browser_last_dialog_hash, ax_last_dialog_hash,
                   last, prev>>

\* one turn of the loop of Observer.start: _check_for_dialogs with the callback.  An
\* exception that left the callback would be caught by _check_for_dialogs, and one that
\* left _check_for_dialogs by the loop, which sleeps and goes on; is_running changes
\* only in stop.
ObserverLoopTurn ==
    /\ last = Idle /\ is_running
    /\ actions_performed_today < MaxActions
    /\ \E scr \in FaultScreens, exec_ok \in BOOLEAN, fault \in Faults :
          /\ last' = [op |-> "check_for_dialogs", app_name |-> scr.app_name,
                      elements |-> scr.elements, fault |-> fault,
                      out |-> CheckForDialogsRun(scr.app_name, scr.elements,
                                 OnDialogDetectedTry(
                                     OnDialogDetectedRun(scr, use_computer_vision, FALSE,
                                                         use_simple_vscode_strategy, providers,
                                                         fallback_order, ollama_up,
                                                         [i \in 1..Len(fallback_order) |-> FailOutcome],
                                                         FailOutcome, exec_ok),
                                     fault))]
          /\ actions_performed_today' =
                actions_performed_today + (IF last'.out.emitted THEN last'.out.out[1].inc ELSE 0)
    /\ UNCHANGED <<thread_vars, is_running, app_observers, callback_threads,
                   fallback_order, providers, ollama_up, use_simple_vscode_strategy,
                   use_computer_vision, browser_last_dialog_hash, ax_last_dialog_hash, prev>>

NextFaults == ObserverStart \/ ObserverLoopTurn \/ ObserverStop \/ Return

SpecFaults == InitFaults /\ [][NextFaults]_vars

\* the turn c of the loop ran the callback and a call of its try block raised
RaisedIn(c) ==
    /\ c # Idle /\ c.op = "check_for_dialogs"
    /\ c.out.emitted /\ c.out.out[1].raised

\* C40: an exception raised by the analysis, the resolution or the execution inside
\* on_dialog_detected is caught there: it does not leave the callback, the calls that
\* follow the raising one are not made (no action is executed for that dialog after the
\* failure, nothing is counted), and the observer's loop keeps running.
C40_FailureContained ==
    RaisedIn(last) =>
        LET r == last.out.out[1]
        IN  /\ ~r.escaped
            /\ r.steps # <<>> /\ r.steps[Len(r.steps)] = last.fault
            /\ last.fault \in {"analyze", "decide", "find_button"} => ~r.executed
            /\ r.inc = 0
            /\ is_running

\* the resolution raised in one turn of the loop, nothing was executed for that dialog,
\* and the next turn processed a dialog up to a successful action
C40_Witness ==
    /\ RaisedIn(prev) /\ prev.fault = "decide" /\ ~prev.out.out[1].executed
    /\ last # Idle /\ last.op = "check_for_dialogs" /\ last.out.emitted
    /\ ~last.out.out[1].raised /\ last.out.out[1].executed /\ last.out.out[1].inc = 1
    /\ is_running

====
